---- MODULE Spec2Model ----
(***************************************************************************)
(* StudySim-AI: the generation orchestration core.                         *)
(*   services/geminiService.ts  - generateContentWithFallback,             *)
(*                                getInterestingFacts, analyzeStudyTopic,  *)
(*                                finalizeStudyPackage,                    *)
(*                                generateStudySimulator, generateQuiz,    *)
(*                                generateVeoVideo                         *)
(*   the StudyArchitect component - handleStartStudy, loadSession,         *)
(*                                deleteSession, the Back button,          *)
(*                                handleGenerateSimulator                  *)
(* Texts are sequences of tokens ("F" is a ``` fence), error messages are  *)
(* sequences of characters, JavaScript values are tagged records.          *)
(***************************************************************************)
EXTENDS Integers, Sequences, FiniteSets, TLC

VARIABLES
    inv,        \* one invocation of generateContentWithFallback
    icalls,     \* the remote calls that invocation has issued, in order
    ireplies,   \* the remote replies it has received, in order
    fx,         \* one invocation of getInterestingFacts
    step,       \* StudyArchitect: WorkflowStep
    loading,    \* StudyArchitect: LoadingState
    plan,       \* StudyArchitect: plan (StudyPlan | null)
    result,     \* StudyArchitect: result (StudyResult | null)
    sessions,   \* StudyArchitect: sessions (SavedSession[])
    currentSessionId,
    runs,       \* the invocations of handleStartStudy, by start order
    isGeneratingSim,  \* StudyArchitect: isGeneratingSim
    sims,       \* the invocations of handleGenerateSimulator, by start order
    sx,         \* one extraction of the simulator document from a text
    veo,        \* one invocation of generateVeoVideo
    qz,         \* one invocation of generateQuiz
    quizLoading,    \* StudyArchitect: quizLoading
    quizQuestions,  \* StudyArchitect: quizQuestions
    chatLoading,    \* StudyArchitect: chatLoading
    chatHistory,    \* StudyArchitect: chatHistory
    quizzes,    \* the invocations of handleGenerateQuiz, by start order
    chats,      \* the invocations of handleChatSubmit, by start order
    veoGen,     \* the VeoGen component: loading, error, videoUrl, handler position
    imageTools  \* the ImageTools component: loading, resultImage, handler position

vars == <<inv, icalls, ireplies, fx, step, loading, plan, result, sessions,
          currentSessionId, runs, isGeneratingSim, sims, sx, veo, qz,
          quizLoading, quizQuestions, chatLoading, chatHistory, quizzes, chats,
          veoGen, imageTools>>

invVars  == <<inv, icalls, ireplies>>
\* The quiz and chat state of StudyArchitect.
qcVars   == <<quizLoading, quizQuestions, chatLoading, chatHistory, quizzes, chats>>
\* The state of the VeoGen and ImageTools components.
cmpVars  == <<veoGen, imageTools>>
uiVars   == <<step, loading, plan, result, sessions, currentSessionId, runs,
             isGeneratingSim, sims, qcVars, cmpVars>>
svcVars  == <<fx, sx, veo, qz>>

(***************************************************************************)
(* Strings as character sequences; String.prototype.includes.              *)
(***************************************************************************)
Includes(hay, needle) ==
    \E i \in 1..(Len(hay) - Len(needle) + 1) :
        SubSeq(hay, i, i + Len(needle) - 1) = needle

\* JavaScript values.
JsUndefined == [t |-> "undefined", s |-> "", items |-> <<>>]
JsString(s) == [t |-> "string", s |-> s, items |-> <<>>]
JsArray(a)  == [t |-> "array", s |-> "", items |-> a]

Str404      == <<"4", "0", "4">>
StrNotFound == <<"n", "o", "t", " ", "f", "o", "u", "n", "d">>

\* Error messages the remote endpoint (or the runtime) can raise.
ErrMsgs ==
    { <<"4", "0", "4">>,
      <<"E", " ", "4", "0", "4", " ", "x">>,
      <<"i", "s", " ", "n", "o", "t", " ", "f", "o", "u", "n", "d">>,
      <<"N", "o", "t", " ", "F", "o", "u", "n", "d">>,
      <<"4", "0", " ", "4">>,
      <<"q", "u", "o", "t", "a">> }

\* A thrown value: an Error with a message, or a value without one.
Errors ==
    { [ok |-> FALSE, text |-> <<>>, hasMsg |-> TRUE, msg |-> m] : m \in ErrMsgs }
    \cup { [ok |-> FALSE, text |-> <<>>, hasMsg |-> FALSE, msg |-> <<>>] }

Response(t) == [ok |-> TRUE, text |-> t, hasMsg |-> FALSE, msg |-> <<>>]

NoReply == [ok |-> FALSE, text |-> <<"none">>, hasMsg |-> FALSE, msg |-> <<>>]

(***************************************************************************)
(* generateContentWithFallback (geminiService.ts 11-23)                    *)
(***************************************************************************)
FallbackModel == "gemini-2.5-flash"

\* error.message?.includes("404") || error.message?.includes("not found")
IsNotFoundError(error) ==
    error.hasMsg /\ (Includes(error.msg, Str404) \/ Includes(error.msg, StrNotFound))

\* A mutation that drops the request's tools on the fallback call.
FallbackCall_DropTools(params) ==
    [model |-> FallbackModel, params |-> [params EXCEPT !.tools = {}]]

\* { ...params, model: 'gemini-2.5-flash' }
FallbackCall(params) == [model |-> FallbackModel, params |-> params]

\* { ...params, model }
PrimaryCall(model, params) == [model |-> model, params |-> params]

\* A mutation that falls back again when the secondary call fails.
FallbackStep_Chained(tier, params, reply) ==
    IF reply.ok
    THEN [kind |-> "return", out |-> reply, call |-> FallbackCall(params)]
    ELSE IF IsNotFoundError(reply)
         THEN [kind |-> "retry", out |-> reply, call |-> FallbackCall(params)]
         ELSE [kind |-> "throw", out |-> reply, call |-> FallbackCall(params)]

\* A mutation that falls back on every failure of the primary call.
FallbackStep_AnyError(tier, params, reply) ==
    IF reply.ok
    THEN [kind |-> "return", out |-> reply, call |-> FallbackCall(params)]
    ELSE IF tier = "primary"
         THEN [kind |-> "retry", out |-> reply, call |-> FallbackCall(params)]
         ELSE [kind |-> "throw", out |-> reply, call |-> FallbackCall(params)]

\* What the invoker does with the reply to its call of the given tier:
\* return it, re-issue against the fallback model, or throw it.  The await
\* inside the catch block is not itself inside a try: its error propagates.
FallbackStep(tier, params, reply) ==
    IF reply.ok
    THEN [kind |-> "return", out |-> reply, call |-> FallbackCall(params)]
    ELSE IF tier = "primary" /\ IsNotFoundError(reply)
         THEN [kind |-> "retry", out |-> reply, call |-> FallbackCall(params)]
         ELSE [kind |-> "throw", out |-> reply, call |-> FallbackCall(params)]

(***************************************************************************)
(* One invocation of generateContentWithFallback, on its own.              *)
(***************************************************************************)
Models == {"gemini-3-pro-preview", "gemini-3-pro-image-preview",
           "gemini-2.5-flash-image"}

\* The payload of a generateContent call: the content parts, the system
\* instruction (which one, and the search context injected into it, if
\* any), the tools and the thinking budget.
Params(parts, sys, inject, ctx, tools, thinking) ==
    [parts |-> parts, sys |-> sys, inject |-> inject, ctx |-> ctx,
     tools |-> tools, thinking |-> thinking]

TextPart(text)   == [kind |-> "text", text |-> text]
InlinePart(data) == [kind |-> "inlineData", text |-> <<data>>]

\* JavaScript truthiness of the values a searchContext can be.
Truthy(v) == v.t = "string" /\ v.s # ""

\* A mutation that keeps the search tool whenever no media is attached.
AnalyzeTools_ByMedia(mediaData, searchContext) ==
    IF Truthy(searchContext) /\ mediaData # "none" THEN {} ELSE {"googleSearch"}

\* Line 162: const tools = searchContext ? [] : [{ googleSearch: {} }]
AnalyzeTools(mediaData, searchContext) ==
    IF Truthy(searchContext) THEN {} ELSE {"googleSearch"}

\* analyzeStudyTopic, lines 85-173: the request it hands the invoker.
\* mediaData is "none" (undefined), "image" or "video".
AnalyzeStudyTopicRequest(input, mediaData, isVideoAnalysis, searchContext) ==
    LET media == IF mediaData = "none" THEN <<>>
                 ELSE << InlinePart(mediaData),
                         TextPart(IF isVideoAnalysis THEN <<"Analyze this video context">>
                                  ELSE <<"Analyze this image">>) >>
        topic == TextPart(IF input = <<>> THEN <<"Analyze the provided media.">> ELSE input)
    IN  [model  |-> "gemini-3-pro-preview",
         params |-> Params(media \o <<topic>>, "analyze",
                           Truthy(searchContext),
                           IF Truthy(searchContext) THEN searchContext.s ELSE "",
                           AnalyzeTools(mediaData, searchContext), 16384)]

\* finalizeStudyPackage, lines 193-227: the request it hands the invoker.
FinalizeStudyPackageRequest(approvedPlan, originalInput) ==
    [model  |-> "gemini-3-pro-preview",
     params |-> Params(<< TextPart(<<"Original Topic:">> \o originalInput),
                          TextPart(<<"Approved Architecture Plan:">> \o approvedPlan),
                          TextPart(<<"Proceed to generate the Smart Notes.">>) >>,
                       "author", FALSE, "", {}, 16384)]

\* Requests the callers of the invoker build.
InvokerParams ==
    { AnalyzeStudyTopicRequest(<<"T1">>, m, m = "video", sc).params :
          m \in {"none", "video"}, sc \in {JsUndefined, JsString("S1")} }
    \cup { FinalizeStudyPackageRequest(<<"P1">>, <<"T1">>).params }

\* Texts a generation response can carry.
ReplyTexts == { <<>>, <<"P1">>, <<"P2">> }

Replies == { Response(t) : t \in ReplyTexts } \cup Errors

NoParams == Params(<<>>, "none", FALSE, "", {}, 0)

InvIdle == [status |-> "idle", model |-> "none", params |-> NoParams, out |-> NoReply]

\* The caller invokes generateContentWithFallback(model, params): the primary
\* call is issued.
Invoke(model, params) ==
    /\ inv.status = "idle"
    /\ inv' = [status |-> "primary", model |-> model, params |-> params, out |-> NoReply]
    /\ icalls' = <<PrimaryCall(model, params)>>
    /\ UNCHANGED <<ireplies, svcVars, uiVars>>

\* The remote endpoint answers the outstanding call.
InvokerReply(reply) ==
    /\ inv.status \in {"primary", "secondary"}
    /\ LET s == FallbackStep(inv.status, inv.params, reply) IN
        /\ ireplies' = Append(ireplies, reply)
        /\ IF s.kind = "retry"
           THEN /\ inv' = [inv EXCEPT !.status = "secondary"]
                /\ icalls' = Append(icalls, s.call)
           ELSE /\ inv' = [inv EXCEPT
                             !.status = IF s.kind = "return" THEN "returned" ELSE "thrown",
                             !.out = s.out]
                /\ icalls' = icalls
    /\ UNCHANGED <<svcVars, uiVars>>

FxIdle == [status |-> "idle"]

SxIdle  == [status |-> "idle"]
\* generateVeoVideo before it is invoked: no operation observed, no job at
\* the remote endpoint, no outcome.
NoOperation == [done |-> FALSE, uri |-> JsUndefined]
NoOutcome   == [kind |-> "none", uri |-> "", hasMsg |-> FALSE, msg |-> <<>>]
VeoIdle ==
    [pc |-> "idle", prompt |-> <<>>, image |-> FALSE, aspectRatio |-> "16:9",
     calls |-> {}, submits |-> 0, sleeps |-> 0, polls |-> 0, timer |-> 0,
     op |-> NoOperation, raised |-> FALSE, caught |-> NoOutcome,
     job |-> "none", jobUri |-> JsUndefined, out |-> NoOutcome]
QzIdle  == [status |-> "idle", calls |-> <<>>]
\* VeoGen.tsx 7-13 and ImageTools.tsx 7-13: the components as mounted.
VeoGenIdle == [pc |-> "idle", loading |-> "IDLE", error |-> FALSE, videoUrl |-> FALSE]
ImageToolsIdle == [pc |-> "idle", loading |-> "IDLE", resultImage |-> FALSE]

UiInit ==
    /\ step = "INPUT"
    /\ loading = "IDLE"
    /\ plan = <<>>
    /\ result = <<>>
    /\ sessions = <<>>
    /\ currentSessionId = 0
    /\ runs = <<>>
    /\ isGeneratingSim = FALSE
    /\ sims = <<>>
    /\ quizLoading = FALSE
    /\ quizQuestions = JsArray(<<>>)
    /\ chatLoading = FALSE
    /\ chatHistory = <<>>
    /\ quizzes = <<>>
    /\ chats = <<>>
    /\ veoGen = VeoGenIdle
    /\ imageTools = ImageToolsIdle

InitInvoker ==
    /\ inv = InvIdle
    /\ icalls = <<>>
    /\ ireplies = <<>>
    /\ fx = FxIdle
    /\ sx = SxIdle
    /\ veo = VeoIdle
    /\ qz = QzIdle
    /\ UiInit

NextInvoker ==
    \/ \E m \in Models, p \in InvokerParams : Invoke(m, p)
    \/ \E reply \in Replies : InvokerReply(reply)

SpecInvoker == InitInvoker /\ [][NextInvoker]_vars

(***************************************************************************)
(* getInterestingFacts (geminiService.ts 31-75)                            *)
(***************************************************************************)

\* What JSON.parse yields at the call site: an object with its facts and
\* searchContext properties (undefined when missing), or a non-object.
JsObject(facts, searchContext) ==
    [t |-> "object", facts |-> facts, searchContext |-> searchContext]
JsNonObject == [t |-> "null", facts |-> JsUndefined, searchContext |-> JsUndefined]

\* Tokens that are each one complete JSON document.
DocTokens == {"FULL", "NOCTX", "MISSCTX", "NOFACTS", "EMPTYOBJ", "NULL"}

DocValue(tok) ==
    CASE tok = "FULL"     -> JsObject(JsArray(<<"f1", "f2">>), JsString("S1"))
      [] tok = "NOCTX"    -> JsObject(JsArray(<<"f1", "f2">>), JsString(""))
      [] tok = "MISSCTX"  -> JsObject(JsArray(<<"f1", "f2">>), JsUndefined)
      [] tok = "NOFACTS"  -> JsObject(JsUndefined, JsString("S1"))
      [] tok = "EMPTYOBJ" -> JsObject(JsUndefined, JsUndefined)
      [] OTHER            -> JsNonObject

\* The tokens response texts are enumerated over: "F" is a ``` fence,
\* "json" and "py" are language tags, "ws" is white space, "junk" is prose,
\* and two of the documents.
TextTokens == {"F", "json", "py", "ws", "junk", "FULL", "EMPTYOBJ"}

Strip(text) == SelectSeq(text, LAMBDA tok : tok # "ws")

\* JSON.parse: white space around one document; anything else is a
\* SyntaxError.
JsonParse(text) ==
    LET body == Strip(text) IN
    IF Len(body) = 1 /\ body[1] \in DocTokens
    THEN [ok |-> TRUE, value |-> DocValue(body[1])]
    ELSE [ok |-> FALSE, value |-> JsNonObject]

\* text.match(/<prefix>([\s\S]*?)```/): the leftmost occurrence of the
\* prefix that a later fence closes, and the shortest group up to a fence.
MatchFenced(text, prefix) ==
    LET n == Len(prefix)
        Closes(i) == { j \in (i + n)..Len(text) : text[j] = "F" }
        Starts == { i \in 1..(Len(text) - n + 1) :
                      SubSeq(text, i, i + n - 1) = prefix /\ Closes(i) # {} }
    IN  IF Starts = {}
        THEN [matched |-> FALSE, group |-> <<>>]
        ELSE LET i == CHOOSE x \in Starts : \A y \in Starts : x <= y
                 j == CHOOSE x \in Closes(i) : \A y \in Closes(i) : x <= y
             IN  [matched |-> TRUE, group |-> SubSeq(text, i + n, j - 1)]

\* A mutation that tries the fence of any kind before the json fence.
Unwrap_AnyFenceFirst(responseText) ==
    LET text == IF responseText = <<>> THEN <<"EMPTYOBJ">> ELSE responseText
        m1 == MatchFenced(text, <<"F", "json">>)
        m2 == MatchFenced(text, <<"F">>)
    IN  IF m2.matched THEN m2.group
        ELSE IF m1.matched THEN m1.group
        ELSE text

\* Lines 61-67: response.text || "{}", then the first of ```json ... ```,
\* ``` ... ```, or the text as it is.
Unwrap(responseText) ==
    LET text == IF responseText = <<>> THEN <<"EMPTYOBJ">> ELSE responseText
        m1 == MatchFenced(text, <<"F", "json">>)
        m2 == MatchFenced(text, <<"F">>)
    IN  IF m1.matched THEN m1.group
        ELSE IF m2.matched THEN m2.group
        ELSE text

DefaultFacts ==
    JsObject(JsArray(<<"Learning is a journey.", "Stay curious.", "Knowledge is power.">>),
             JsString(""))

Returned(v) == [kind |-> "return", value |-> v]
Thrown      == [kind |-> "throw", value |-> JsNonObject]

\* A mutation whose catch block lets a SyntaxError escape.
GetInterestingFacts_Rethrow(reply) ==
    IF ~reply.ok
    THEN Returned(DefaultFacts)
    ELSE LET p == JsonParse(Unwrap(reply.text)) IN
         IF p.ok THEN Returned(p.value) ELSE Thrown

\* The outcome of getInterestingFacts for the reply to its one remote call.
GetInterestingFacts(reply) ==
    IF ~reply.ok
    THEN Returned(DefaultFacts)
    ELSE LET p == JsonParse(Unwrap(reply.text)) IN
         IF p.ok THEN Returned(p.value) ELSE Returned(DefaultFacts)

\* The request of lines 53-59: the fast model with the search tool.
FactsCall(topic) ==
    [model |-> "gemini-2.5-flash",
     params |-> Params(<<TextPart(<<"Perform a Google Search for the topic:">> \o topic)>>,
                       "none", FALSE, "", {"googleSearch"}, 0)]

(***************************************************************************)
(* One invocation of getInterestingFacts, on its own.                      *)
(***************************************************************************)
\* The longest response text, in tokens.
MaxTextLen == 4

RECURSIVE TextsOfLen(_)
TextsOfLen(n) ==
    IF n = 0 THEN { <<>> }
    ELSE { Append(t, tok) : t \in TextsOfLen(n - 1), tok \in TextTokens }

Texts == UNION { TextsOfLen(n) : n \in 0..MaxTextLen }

FactReplies == { Response(t) : t \in Texts } \cup Errors

FactsInvoke ==
    /\ fx.status = "idle"
    /\ fx' = [status |-> "waiting"]
    /\ UNCHANGED <<invVars, sx, veo, qz, uiVars>>

FactsReply(reply) ==
    /\ fx.status = "waiting"
    /\ fx' = [status |-> "done", reply |-> reply,
              text |-> IF reply.ok THEN Unwrap(reply.text) ELSE <<>>,
              result |-> GetInterestingFacts(reply)]
    /\ UNCHANGED <<invVars, sx, veo, qz, uiVars>>

InitFacts ==
    /\ inv = InvIdle
    /\ icalls = <<>>
    /\ ireplies = <<>>
    /\ fx = FxIdle
    /\ sx = SxIdle
    /\ veo = VeoIdle
    /\ qz = QzIdle
    /\ UiInit

NextFacts ==
    \/ FactsInvoke
    \/ \E reply \in FactReplies : FactsReply(reply)

SpecFacts == InitFacts /\ [][NextFacts]_vars

(***************************************************************************)
(* StudyArchitect: handleStartStudy and the handlers that move `step`.     *)
(***************************************************************************)
\* How many times handleStartStudy is invoked in a behaviour.  A second
\* invocation can overlap the first one (Back, then Start).
MaxRuns == 1

Topics == { <<"T1">> }
Media  == {"none", "image", "video"}

\* Response texts of the fact-retrieval call, one or more for each outcome
\* of the parse path.
PipelineTexts ==
    { <<>>, <<"FULL">>, <<"F", "json", "FULL", "F">>, <<"F", "NOCTX", "F">>,
      <<"MISSCTX">>, <<"NOFACTS">>, <<"NULL">>, <<"junk">>, <<"F", "py", "FULL", "F">> }

\* Response texts of the Analyzing and Authoring calls.
PipelineReplies == { Response(<<>>), Response(<<"G1">>) } \cup Errors

PipelineFactReplies == { Response(t) : t \in PipelineTexts } \cup Errors

Last(seq) == seq[Len(seq)]

\* Line 212: inputText plus the names of the attached files.
CombinedInput(inputText, media) ==
    IF media = "none" THEN inputText ELSE inputText \o <<"[Attached Files]">>

\* Lines 215-216: const { facts, searchContext } = await getInterestingFacts(..)
\* and facts.length.  Destructuring a non-object and reading .length of
\* undefined or null raise a TypeError.
DestructureFacts(out) ==
    IF \/ out.kind = "throw"
       \/ out.value.t # "object"
       \/ out.value.facts.t \in {"undefined", "null"}
    THEN [kind |-> "throw", searchContext |-> JsUndefined]
    ELSE [kind |-> "ok", searchContext |-> out.value.searchContext]

\* A mutation that hands Analyzing no search context.
SearchContextArg_Dropped(searchContext) == JsUndefined

\* Line 222: the searchContext argument of analyzeStudyTopic.
SearchContextArg(searchContext) == searchContext

\* response.text || fallback
TextOr(text, fallback) == IF text = <<>> THEN fallback ELSE text

LogEntry(fn, call) == [fn |-> fn, call |-> call]

\* Line 100: session.quizQuestions || []
OrEmptyArray(v) == IF v.t \in {"undefined", "null"} THEN JsArray(<<>>) ELSE v

\* Lines 81-94: the effect that runs after a render in which quizQuestions
\* or chatHistory changed; updateCurrentSession writes both into the
\* current session of that render's session list.
AutoSave(sess, current, st, quiz, chat) ==
    IF current # 0 /\ st = "DONE"
    THEN [i \in 1..Len(sess) |->
             IF sess[i].id = current
             THEN [sess[i] EXCEPT !.quizQuestions = quiz, !.chatHistory = chat]
             ELSE sess[i]]
    ELSE sess

\* The calls of a run that await their reply, as indices of its log: the
\* outstanding call has been answered and the next one is issued.
Issued(run, inflight) == (inflight \ {Len(run.log)}) \cup {Len(run.log) + 1}

\* A mutation that hands Authoring the placeholder plan.
PlanArg_Placeholder(planData) == <<"No plan generated.">>

\* Line 228: the approvedPlan argument of finalizeStudyPackage.
PlanArg(planData) == planData.markdownPlan

\* Lines 187-215: the handler up to its first remote call.  The Start
\* button is rendered only in the INPUT view.
StartStudyRun(inputText, media) ==
    /\ step = "INPUT"
    /\ ~(inputText = <<>> /\ media = "none")
    /\ loading' = "LOADING"
    /\ step' = "ANALYZING"
    /\ runs' = Append(runs,
          [pc |-> "facts", tier |-> "none", inputText |-> inputText, media |-> media,
           searchContext |-> JsUndefined, planData |-> <<>>,
           log |-> << LogEntry("facts", FactsCall(CombinedInput(inputText, media))) >>,
           inflight |-> {1},
           sessions |-> sessions, failedAt |-> "none"])
    /\ UNCHANGED <<invVars, svcVars, plan, result, sessions, currentSessionId,
                   isGeneratingSim, sims, qcVars, cmpVars>>

\* The handler, invoked at most MaxRuns times in a behaviour.
StartStudy(inputText, media) ==
    /\ Len(runs) < MaxRuns
    /\ StartStudyRun(inputText, media)

\* A mutation whose catch block leaves the busy state on.
Fail_KeepLoading(r, at) ==
    /\ runs' = [runs EXCEPT ![r].pc = "failed", ![r].tier = "none", ![r].failedAt = at,
                            ![r].inflight = @ \ {Len(runs[r].log)}]
    /\ step' = "INPUT"
    /\ UNCHANGED <<loading, plan, result, sessions, currentSessionId>>

\* Lines 252-255: the catch block.
Fail(r, at) ==
    /\ runs' = [runs EXCEPT ![r].pc = "failed", ![r].tier = "none", ![r].failedAt = at,
                            ![r].inflight = @ \ {Len(runs[r].log)}]
    /\ loading' = "ERROR"
    /\ step' = "INPUT"
    /\ UNCHANGED <<plan, result, sessions, currentSessionId>>

\* A mutation that shows the results as soon as the plan is there.
StepAfterPlan_Done == "DONE"

\* Line 226
StepAfterPlan == "BUILDING"

\* Lines 215-222: getInterestingFacts resolves; analyzeStudyTopic issues its
\* call through the invoker.
FactsDone(r, reply) ==
    /\ runs[r].pc = "facts"
    /\ LET d == DestructureFacts(GetInterestingFacts(reply))
           run == runs[r]
           call == AnalyzeStudyTopicRequest(CombinedInput(run.inputText, run.media),
                       run.media, run.media = "video", SearchContextArg(d.searchContext))
       IN  IF d.kind = "throw"
           THEN Fail(r, "facts")
           ELSE /\ runs' = [runs EXCEPT ![r].pc = "analyze", ![r].tier = "primary",
                                        ![r].searchContext = d.searchContext,
                                        ![r].log = Append(@, LogEntry("analyze",
                                                      PrimaryCall(call.model, call.params))),
                                        ![r].inflight = Issued(run, @)]
                /\ UNCHANGED <<step, loading, plan, result, sessions, currentSessionId>>
    /\ UNCHANGED <<invVars, svcVars, isGeneratingSim, sims, qcVars, cmpVars>>

\* Lines 222-228: the invoker gets the reply to the Analyzing call; on its
\* return the plan is stored and finalizeStudyPackage issues its call.
AnalyzeDone(r, reply) ==
    /\ runs[r].pc = "analyze"
    /\ LET run == runs[r]
           s == FallbackStep(run.tier, Last(run.log).call.params, reply)
           planData == [markdownPlan |-> TextOr(reply.text, <<"No plan generated.">>)]
           call == FinalizeStudyPackageRequest(PlanArg(planData), run.inputText)
       IN  CASE s.kind = "retry" ->
                  /\ runs' = [runs EXCEPT ![r].tier = "secondary",
                                          ![r].log = Append(@, LogEntry("analyze", s.call)),
                                          ![r].inflight = Issued(run, @)]
                  /\ UNCHANGED <<step, loading, plan, result, sessions, currentSessionId>>
             [] s.kind = "throw" -> Fail(r, "analyze")
             [] s.kind = "return" ->
                  /\ runs' = [runs EXCEPT ![r].pc = "author", ![r].tier = "primary",
                                          ![r].planData = planData.markdownPlan,
                                          ![r].log = Append(@, LogEntry("author",
                                                        PrimaryCall(call.model, call.params))),
                                          ![r].inflight = Issued(run, @)]
                  /\ plan' = planData
                  /\ step' = StepAfterPlan
                  /\ UNCHANGED <<loading, result, sessions, currentSessionId>>
    /\ UNCHANGED <<invVars, svcVars, isGeneratingSim, sims, qcVars, cmpVars>>

\* Lines 228-251: the invoker gets the reply to the Authoring call; on its
\* return the result is shown and the session saved.
AuthorDone(r, reply) ==
    /\ runs[r].pc = "author"
    /\ LET run == runs[r]
           s == FallbackStep(run.tier, Last(run.log).call.params, reply)
           resultData == [markdown |-> TextOr(reply.text, <<"No content generated.">>),
                          simulatorCode |-> <<>>]
           newSession == [id |-> r,
                          topic |-> TextOr(run.inputText, <<"Untitled Study Session">>),
                          plan |-> [markdownPlan |-> run.planData],
                          result |-> resultData,
                          quizQuestions |-> JsArray(<<>>),
                          chatHistory |-> <<>>]
       IN  CASE s.kind = "retry" ->
                  /\ runs' = [runs EXCEPT ![r].tier = "secondary",
                                          ![r].log = Append(@, LogEntry("author", s.call)),
                                          ![r].inflight = Issued(run, @)]
                  /\ UNCHANGED <<step, loading, plan, result, sessions, currentSessionId,
                                 quizQuestions, chatHistory>>
             [] s.kind = "throw" ->
                  /\ Fail(r, "author")
                  /\ UNCHANGED <<quizQuestions, chatHistory>>
             [] s.kind = "return" ->
                  /\ runs' = [runs EXCEPT ![r].pc = "done", ![r].tier = "none",
                                          ![r].inflight = @ \ {Len(run.log)}]
                  /\ result' = resultData
                  /\ loading' = "SUCCESS"
                  /\ step' = "DONE"
                  /\ quizQuestions' = JsArray(<<>>)
                  /\ chatHistory' = <<>>
                  /\ sessions' = AutoSave(<<newSession>> \o run.sessions, newSession.id,
                                          "DONE", JsArray(<<>>), <<>>)
                  /\ currentSessionId' = newSession.id
                  /\ UNCHANGED plan
    /\ UNCHANGED <<invVars, svcVars, isGeneratingSim, sims, quizLoading, chatLoading,
                   quizzes, chats, cmpVars>>

\* Line 574: the Back button of the non-INPUT view.
Back ==
    /\ step # "INPUT"
    /\ step' = "INPUT"
    /\ UNCHANGED <<invVars, svcVars, loading, plan, result, sessions, currentSessionId,
                   runs, isGeneratingSim, sims, qcVars, cmpVars>>

\* Lines 96-106: a session is picked in the history sidebar of the INPUT view.
LoadSession(i) ==
    /\ step = "INPUT"
    /\ i \in 1..Len(sessions)
    /\ plan' = sessions[i].plan
    /\ result' = sessions[i].result
    /\ currentSessionId' = sessions[i].id
    /\ quizQuestions' = OrEmptyArray(sessions[i].quizQuestions)
    /\ chatHistory' = sessions[i].chatHistory
    /\ step' = "DONE"
    /\ sessions' = AutoSave(sessions, sessions[i].id, "DONE",
                            OrEmptyArray(sessions[i].quizQuestions),
                            sessions[i].chatHistory)
    /\ UNCHANGED <<invVars, svcVars, loading, runs, isGeneratingSim, sims, quizLoading,
                   chatLoading, quizzes, chats, cmpVars>>

\* Lines 108-116: a session is deleted in the history sidebar.
DeleteSession(i) ==
    /\ step = "INPUT"
    /\ i \in 1..Len(sessions)
    /\ sessions' = SelectSeq(sessions, LAMBDA x : x.id # sessions[i].id)
    /\ IF currentSessionId = sessions[i].id
       THEN step' = "INPUT" /\ currentSessionId' = 0
       ELSE UNCHANGED <<step, currentSessionId>>
    /\ UNCHANGED <<invVars, svcVars, loading, plan, result, runs, isGeneratingSim, sims,
                   qcVars, cmpVars>>

Init ==
    /\ inv = InvIdle
    /\ icalls = <<>>
    /\ ireplies = <<>>
    /\ fx = FxIdle
    /\ sx = SxIdle
    /\ veo = VeoIdle
    /\ qz = QzIdle
    /\ UiInit

Next ==
    \/ \E t \in Topics, m \in Media : StartStudy(t, m)
    \/ \E r \in 1..Len(runs), reply \in PipelineFactReplies : FactsDone(r, reply)
    \/ \E r \in 1..Len(runs), reply \in PipelineReplies : AnalyzeDone(r, reply)
    \/ \E r \in 1..Len(runs), reply \in PipelineReplies : AuthorDone(r, reply)
    \/ Back
    \/ \E i \in 1..Len(sessions) : LoadSession(i)
    \/ \E i \in 1..Len(sessions) : DeleteSession(i)

Spec == Init /\ [][Next]_vars

(***************************************************************************)
(* generateStudySimulator (geminiService.ts 239-307) and the component's   *)
(* handleGenerateSimulator (262-281).                                      *)
(***************************************************************************)
\* How many times handleGenerateSimulator is invoked in a behaviour.
MaxSims == 2

\* Lines 283-286: text.match(/```html([\s\S]*?)```/), null when no match.
ExtractSimulatorCode(text) == MatchFenced(text, <<"F", "html">>)

\* A mutation that falls back to a fence of any tag.
SimulatorCodeOf_BestEffort(responseText) ==
    LET m1 == MatchFenced(responseText, <<"F", "html">>)
        m2 == MatchFenced(responseText, <<"F">>)
    IN  IF m1.matched THEN m1.group
        ELSE IF m2.matched THEN m2.group
        ELSE <<>>

\* Lines 299-301: response.text || "", the same match, "" when no match.
SimulatorCodeOf(responseText) ==
    LET m == MatchFenced(responseText, <<"F", "html">>)
    IN  IF m.matched THEN m.group ELSE <<>>

\* Line 287: result?.simulatorCode || (result ? extractSimulatorCode(
\* result.markdown) : null); <<>> stands for its falsy values.
DisplayedSimulatorCode(res) ==
    IF res = <<>> THEN <<>>
    ELSE IF res.simulatorCode # <<>> THEN res.simulatorCode
    ELSE LET m == ExtractSimulatorCode(res.markdown)
         IN  IF m.matched THEN m.group ELSE <<>>

\* Lines 286-297: the request generateStudySimulator hands the invoker.
GenerateStudySimulatorRequest(approvedPlan, smartNotes) ==
    [model  |-> "gemini-3-pro-preview",
     params |-> Params(<< TextPart(<<"ATTACHED RESEARCH CONTEXT (Architecture Plan):">>
                                     \o approvedPlan),
                          TextPart(<<"ATTACHED CONTENT (Smart Notes):">> \o smartNotes),
                          TextPart(<<"Proceed to generate the Interactive Simulator HTML5 code.">>) >>,
                       "simulator", FALSE, "", {}, 32768)]

\* A mutation that renders the Initiate Simulation button in every view.
SimulatorButtonShown_AnyStep ==
    /\ result # <<>>
    /\ DisplayedSimulatorCode(result) = <<>>
    /\ ~isGeneratingSim

\* Lines 656, 680, 777 and 816: the Initiate Simulation button is rendered
\* in the results of step DONE, while no simulator document is shown and
\* no simulator generation is under way.
SimulatorButtonShown ==
    /\ step = "DONE"
    /\ result # <<>>
    /\ DisplayedSimulatorCode(result) = <<>>
    /\ ~isGeneratingSim

\* Texts of the simulator response.
SimReplies ==
    { Response(<<>>), Response(<<"junk">>), Response(<<"F", "html", "H1", "F">>) }
    \cup Errors

\* Lines 262-266: the handler up to its remote call.
GenerateSimulatorCall ==
    /\ SimulatorButtonShown
    /\ plan # <<>> /\ result # <<>>
    /\ isGeneratingSim' = TRUE
    /\ LET call == GenerateStudySimulatorRequest(plan.markdownPlan, result.markdown)
       IN  sims' = Append(sims,
              [pc |-> "waiting", tier |-> "primary", plan |-> plan, result |-> result,
               sessions |-> sessions, currentSessionId |-> currentSessionId,
               log |-> << LogEntry("simulator", PrimaryCall(call.model, call.params)) >>])
    /\ UNCHANGED <<invVars, svcVars, step, loading, plan, result, sessions,
                   currentSessionId, runs, qcVars, cmpVars>>

\* The handler, invoked at most MaxSims times in a behaviour.
GenerateSimulator ==
    /\ Len(sims) < MaxSims
    /\ GenerateSimulatorCall

\* Lines 266-280: the invoker gets the reply to the simulator call; on its
\* return the code is put into the result the handler started with, and
\* into that session of the session list the handler started with.
SimulatorDone(k, reply) ==
    /\ sims[k].pc = "waiting"
    /\ LET sim == sims[k]
           s == FallbackStep(sim.tier, Last(sim.log).call.params, reply)
           updatedResult == [sim.result EXCEPT !.simulatorCode = SimulatorCodeOf(reply.text)]
           updatedSessions ==
               [i \in 1..Len(sim.sessions) |->
                   IF sim.sessions[i].id = sim.currentSessionId
                   THEN [sim.sessions[i] EXCEPT !.result = updatedResult]
                   ELSE sim.sessions[i]]
       IN  CASE s.kind = "retry" ->
                  /\ sims' = [sims EXCEPT ![k].tier = "secondary",
                                          ![k].log = Append(@, LogEntry("simulator", s.call))]
                  /\ UNCHANGED <<result, sessions, isGeneratingSim>>
             [] s.kind = "throw" ->
                  /\ sims' = [sims EXCEPT ![k].pc = "failed"]
                  /\ isGeneratingSim' = FALSE
                  /\ UNCHANGED <<result, sessions>>
             [] s.kind = "return" ->
                  /\ sims' = [sims EXCEPT ![k].pc = "done"]
                  /\ result' = updatedResult
                  /\ sessions' = IF sim.currentSessionId # 0 THEN updatedSessions
                                 ELSE sessions
                  /\ isGeneratingSim' = FALSE
    /\ UNCHANGED <<invVars, svcVars, step, loading, plan, currentSessionId, runs, qcVars, cmpVars>>

\* Outcomes of a run's calls while the simulator is looked at: the facts
\* arrive or are unusable, the plan arrives or fails, the notes arrive
\* (with or without an html block of their own) or fail.
QuotaError == [ok |-> FALSE, text |-> <<>>, hasMsg |-> TRUE,
               msg |-> <<"q", "u", "o", "t", "a">>]
Error404   == [ok |-> FALSE, text |-> <<>>, hasMsg |-> TRUE, msg |-> Str404]
SimFactReplies    == { Response(<<"FULL">>), Response(<<>>) }
SimAnalyzeReplies == { Response(<<"G1">>), QuotaError, Error404 }
SimAuthorReplies  == { Response(<<"G1">>), Response(<<"F", "html", "H0", "F">>),
                       QuotaError }

NextSim ==
    \/ \E t \in Topics : StartStudy(t, "none")
    \/ \E r \in 1..Len(runs), reply \in SimFactReplies : FactsDone(r, reply)
    \/ \E r \in 1..Len(runs), reply \in SimAnalyzeReplies : AnalyzeDone(r, reply)
    \/ \E r \in 1..Len(runs), reply \in SimAuthorReplies : AuthorDone(r, reply)
    \/ Back
    \/ \E i \in 1..Len(sessions) : LoadSession(i)
    \/ \E i \in 1..Len(sessions) : DeleteSession(i)
    \/ GenerateSimulator
    \/ \E k \in 1..Len(sims), reply \in SimReplies : SimulatorDone(k, reply)

SpecSim == Init /\ [][NextSim]_vars

(***************************************************************************)
(* Properties of the Fallback Invoker, under SpecInvoker.                  *)
(***************************************************************************)
\* The capability-unavailable signal as the specification words it: an
\* error whose message contains "404" or "not found".
CapabilityUnavailable(reply) ==
    /\ ~reply.ok
    /\ reply.hasMsg
    /\ \/ Includes(reply.msg, <<"4", "0", "4">>)
       \/ Includes(reply.msg, <<"n", "o", "t", " ", "f", "o", "u", "n", "d">>)

\* C1: whenever the primary-tier call fails with a capability-unavailable
\* signal, exactly one secondary-tier call is issued, its payload is the
\* primary request's except for the model identifier, and what the invoker
\* hands its caller is that call's outcome.
C1_FallbackOnUnavailable ==
    (Len(ireplies) >= 1 /\ CapabilityUnavailable(ireplies[1])) =>
        /\ Len(icalls) = 2
        /\ icalls[1] = [model |-> inv.model, params |-> inv.params]
        /\ icalls[2] = [model |-> "gemini-2.5-flash", params |-> icalls[1].params]
        /\ Len(ireplies) = 2 =>
              /\ inv.out = ireplies[2]
              /\ inv.status = IF ireplies[2].ok THEN "returned" ELSE "thrown"

\* C1 witness: a fallback hop has answered and its response was returned.
C1_Witness ==
    /\ Len(ireplies) = 2
    /\ CapabilityUnavailable(ireplies[1])
    /\ inv.status = "returned"
    /\ inv.params.tools # {}

\* C2: whenever the primary-tier call fails with any other signal, no
\* secondary-tier call is issued and the caller receives the original error.
C2_OtherErrorsPropagate ==
    (Len(ireplies) >= 1 /\ ~ireplies[1].ok /\ ~CapabilityUnavailable(ireplies[1])) =>
        /\ Len(icalls) = 1
        /\ Len(ireplies) = 1
        /\ inv.status = "thrown"
        /\ inv.out = ireplies[1]

\* C2 witness: the primary call failed with a message that only resembles
\* the signal, and the invoker has thrown.
C2_Witness ==
    /\ inv.status = "thrown"
    /\ Len(icalls) = 1
    /\ ireplies[1].msg = <<"N", "o", "t", " ", "F", "o", "u", "n", "d">>

\* C3: one invocation issues at most two remote calls, the primary one and
\* at most one secondary one; a failure of the secondary call, also a
\* capability-unavailable one, propagates and no third call is made.
C3_AtMostOneHop ==
    /\ Len(icalls) <= 2
    /\ Len(icalls) >= 1 => icalls[1].model = inv.model
    /\ Len(icalls) = 2 => icalls[2].model = "gemini-2.5-flash"
    /\ (Len(ireplies) = 2 /\ ~ireplies[2].ok) =>
          /\ inv.status = "thrown"
          /\ inv.out = ireplies[2]
          /\ Len(icalls) = 2

\* C3 witness: the secondary call failed with a capability-unavailable
\* signal of its own.
C3_Witness ==
    /\ Len(ireplies) = 2
    /\ CapabilityUnavailable(ireplies[2])
    /\ inv.status = "thrown"

(***************************************************************************)
(* Properties of getInterestingFacts, under SpecFacts.                     *)
(***************************************************************************)
\* C5: whenever the remote call raises or the unwrapped response text is
\* not valid JSON, getInterestingFacts returns exactly the fixed 3-item
\* default fact set with an empty summary, and it never raises.
C5_DefaultOnMalformed ==
    fx.status = "done" =>
        /\ fx.result.kind = "return"
        /\ (~fx.reply.ok \/ ~JsonParse(Unwrap(fx.reply.text)).ok) =>
              /\ fx.result.value.t = "object"
              /\ fx.result.value.facts.t = "array"
              /\ fx.result.value.facts.items =
                    <<"Learning is a journey.", "Stay curious.", "Knowledge is power.">>
              /\ fx.result.value.searchContext = JsString("")

\* C5 witness: a response whose fence carries another language tag in
\* front of a valid document was answered with the default.
C5_Witness ==
    /\ fx.status = "done"
    /\ fx.reply.ok
    /\ fx.reply.text = <<"F", "py", "FULL", "F">>
    /\ fx.result.value.searchContext = JsString("")

\* A fence opens at i and the next fence after its tag is at j.
FenceAt(text, tag, i, j) ==
    /\ i + Len(tag) < j /\ j <= Len(text)
    /\ SubSeq(text, i, i + Len(tag)) = <<"F">> \o tag
    /\ text[j] = "F"
    /\ \A m \in (i + Len(tag) + 1)..(j - 1) : text[m] # "F"

\* The first fence with the tag, as the set of its <<i, j>> (empty or one).
FirstFence(text, tag) ==
    { p \in (1..Len(text)) \X (1..Len(text)) :
        /\ FenceAt(text, tag, p[1], p[2])
        /\ \A q \in (1..(p[1] - 1)) \X (1..Len(text)) : ~FenceAt(text, tag, q[1], q[2]) }

\* C24 as stated: a fence that carries another language tag is not treated
\* as an unlabeled fence; with no json fence in the text, the text that
\* is parsed is then the entire response text.
C24_OtherTagNotUnlabeled ==
    (/\ fx.status = "done"
     /\ fx.reply.ok
     /\ FirstFence(fx.reply.text, <<"json">>) = {}
     /\ \E p \in FirstFence(fx.reply.text, <<>>) : fx.reply.text[p[1] + 1] = "py")
        => fx.text = fx.reply.text

\* C24: the text that is parsed is the content of the first fence tagged
\* json; with no such fence, everything between the first fence of any
\* kind and the next fence, a tag other than json included; with no fence
\* at all, the entire text ("{}" for an empty text).  The parse is
\* strict: the call returns the parsed value, or the default facts.
C24_ExtractionOrder ==
    (fx.status = "done" /\ fx.reply.ok) =>
        LET t == IF fx.reply.text = <<>> THEN <<"EMPTYOBJ">> ELSE fx.reply.text
            js == FirstFence(t, <<"json">>)
            any == FirstFence(t, <<>>)
        IN  /\ \A p \in js : fx.text = SubSeq(t, p[1] + 2, p[2] - 1)
            /\ js = {} => \A p \in any : fx.text = SubSeq(t, p[1] + 1, p[2] - 1)
            /\ (js = {} /\ any = {}) => fx.text = t
            /\ fx.result = IF JsonParse(fx.text).ok
                           THEN Returned(JsonParse(fx.text).value)
                           ELSE Returned(DefaultFacts)

\* A fence tagged py was taken for the fence of step (b): the parsed text
\* starts with the tag, and the default facts were returned.
C24_Witness ==
    /\ fx.status = "done"
    /\ fx.reply.ok
    /\ fx.text = <<"py", "FULL">>
    /\ fx.result = Returned(DefaultFacts)

(***************************************************************************)
(* Properties of the pipeline, under Spec.                                 *)
(***************************************************************************)
CallsOf(r, fns) == { i \in 1..Len(runs[r].log) : runs[r].log[i].fn \in fns }

SearchCalls(r) ==
    { i \in 1..Len(runs[r].log) : "googleSearch" \in runs[r].log[i].call.params.tools }

\* A summary that is a non-empty string.
NonEmptySummary(v) == v.t = "string" /\ v.s # ""

\* C4: whatever the fact-retrieval call yields, the run goes on to the
\* Analyzing call and never aborts to Idle in the FetchingContext phase.
C4_FactsNonFatal ==
    \A r \in 1..Len(runs) : runs[r].failedAt # "facts"

\* C6: in every run the fact-retrieval call is issued at most once, it has
\* completed before an Analyzing call is issued, and the summary handed to
\* Analyzing is the searchContext that fact retrieval produced.
C6_FactsOnceThenAnalyze ==
    \A r \in 1..Len(runs) :
        /\ CallsOf(r, {"facts"}) = {1}
        /\ \A i \in CallsOf(r, {"analyze"}) :
              /\ i > 1
              /\ runs[r].pc # "facts"
              /\ runs[r].log[i].call.params.inject = NonEmptySummary(runs[r].searchContext)
              /\ NonEmptySummary(runs[r].searchContext) =>
                    runs[r].log[i].call.params.ctx = runs[r].searchContext.s

\* C6 witness: an Analyzing call carrying the summary S1 of the run's one
\* fact retrieval is in flight.
C6_Witness ==
    \E r \in 1..Len(runs) :
        /\ runs[r].pc = "analyze"
        /\ runs[r].searchContext = JsString("S1")
        /\ Last(runs[r].log).call.params.ctx = "S1"

\* C7: the Analyzing request has the web-search tool off and the summary
\* injected exactly when the summary is non-empty, and the tool on and
\* nothing injected otherwise, whatever the topic and the media are.
C7_ContextSuppressesSearch ==
    \A r \in 1..Len(runs) : \A i \in CallsOf(r, {"analyze"}) :
        LET p == runs[r].log[i].call.params IN
        IF NonEmptySummary(runs[r].searchContext)
        THEN p.tools = {} /\ p.inject /\ p.ctx = runs[r].searchContext.s
        ELSE p.tools = {"googleSearch"} /\ ~p.inject

\* C7 witness: the Analyzing request of a run with an image and the
\* summary S1 is on its fallback hop, the summary injected and the
\* web-search tool off.
C7_Witness ==
    \E r \in 1..Len(runs) :
        /\ runs[r].pc = "analyze"
        /\ runs[r].tier = "secondary"
        /\ runs[r].media = "image"
        /\ runs[r].searchContext = JsString("S1")
        /\ Last(runs[r].log).call.params.tools = {}
        /\ Last(runs[r].log).call.params.inject

\* C8 as claimed: within one run at most one remote call with the
\* web-search tool is issued across FetchingContext and Analyzing.
C8_SearchAtMostOnce ==
    \A r \in 1..Len(runs) : Cardinality(SearchCalls(r)) <= 1

\* C8 as amended: in a run whose fact retrieval produced a non-empty
\* summary the fact-retrieval call is the only call with the web-search
\* tool; otherwise the Analyzing call and its fallback re-issue carry the
\* tool too, three calls at most.
C8_SearchOnceWithContext ==
    \A r \in 1..Len(runs) :
        /\ NonEmptySummary(runs[r].searchContext) => SearchCalls(r) = {1}
        /\ SearchCalls(r) \subseteq CallsOf(r, {"facts", "analyze"})
        /\ Cardinality(SearchCalls(r)) <= 3

\* C8 witness: a run with a summary has got past Analyzing, over the
\* fallback hop, with one search-enabled call.
C8_Witness ==
    \E r \in 1..Len(runs) :
        /\ runs[r].pc = "author"
        /\ NonEmptySummary(runs[r].searchContext)
        /\ Cardinality(CallsOf(r, {"analyze"})) = 2
        /\ Cardinality(SearchCalls(r)) = 1

\* C9 as claimed: `step` only moves forward along INPUT -> ANALYZING ->
\* BUILDING -> DONE, or back to INPUT; no transition skips a state or goes
\* from a later state to an earlier one other than INPUT.
C9_StrictlyForward ==
    [][ step' # step =>
            \/ step' = "INPUT"
            \/ <<step, step'>> \in { <<"INPUT", "ANALYZING">>,
                                     <<"ANALYZING", "BUILDING">>,
                                     <<"BUILDING", "DONE">> } ]_vars

PhaseOrder == { <<"facts", "analyze">>, <<"analyze", "author">>, <<"author", "done">>,
                <<"facts", "failed">>, <<"analyze", "failed">>, <<"author", "failed">> }

\* C9 as amended: each run moves strictly forward through FetchingContext,
\* Analyzing, Authoring, Ready (or aborts), entering no phase twice, and
\* sets `step` to ANALYZING when it starts, BUILDING when its plan arrives,
\* DONE when its notes arrive and INPUT when it aborts; besides that `step`
\* changes only by loadSession (INPUT -> DONE at once) and by Back or
\* deleteSession (-> INPUT), so the displayed step can skip states and,
\* with a run still in flight after Back, leave INPUT for BUILDING or DONE.
C9_RunsMoveForward ==
    [][ /\ \A r \in 1..Len(runs) :
              runs'[r].pc # runs[r].pc => <<runs[r].pc, runs'[r].pc>> \in PhaseOrder
        /\ step' # step =>
              \/ step' = "INPUT"
              \/ /\ step' = "ANALYZING"
                 /\ step = "INPUT"
                 /\ Len(runs') = Len(runs) + 1
              \/ /\ step' = "BUILDING"
                 /\ \E r \in 1..Len(runs) : runs[r].pc = "analyze" /\ runs'[r].pc = "author"
              \/ /\ step' = "DONE"
                 /\ \/ \E r \in 1..Len(runs) : runs[r].pc = "author" /\ runs'[r].pc = "done"
                    \/ /\ step = "INPUT"
                       /\ runs' = runs
                       /\ \E i \in 1..Len(sessions) : currentSessionId' = sessions[i].id ]_vars

\* C9 witness: a run whose plan arrived after Back has moved `step` from
\* INPUT to BUILDING and, Back pressed once more, is in Authoring behind
\* the INPUT view.
C9_Witness ==
    /\ step = "INPUT"
    /\ loading = "LOADING"
    /\ \E r \in 1..Len(runs) :
          /\ runs[r].pc = "author"
          /\ plan = [markdownPlan |-> runs[r].planData]

\* C10: when the Analyzing or Authoring call fails the run aborts there:
\* no later phase's call is issued, no call is re-issued beyond the one
\* fallback hop, `step` returns to INPUT with loading = ERROR, and no
\* session is stored for the run.
C10_AbortOnFailure ==
    /\ [](\A r \in 1..Len(runs) :
            (runs[r].pc = "failed" /\ runs[r].failedAt \in {"analyze", "author"}) =>
                /\ Last(runs[r].log).fn = runs[r].failedAt
                /\ Cardinality(CallsOf(r, {"analyze"})) <= 2
                /\ Cardinality(CallsOf(r, {"author"})) <= 2
                /\ \A i \in 1..Len(sessions) : sessions[i].id # r)
    /\ [][ \A r \in 1..Len(runs) :
              /\ (runs[r].pc \in {"analyze", "author"} /\ runs'[r].pc = "failed") =>
                    /\ step' = "INPUT"
                    /\ loading' = "ERROR"
                    /\ sessions' = sessions
                    /\ runs'[r].log = runs[r].log
                    /\ runs'[r].failedAt = runs[r].pc
              /\ runs[r].pc = "failed" => runs'[r] = runs[r] ]_vars

\* C10 witness: the Authoring call failed on its fallback hop and the run
\* is back in INPUT with ERROR and nothing stored.
C10_Witness ==
    /\ step = "INPUT"
    /\ loading = "ERROR"
    /\ sessions = <<>>
    /\ \E r \in 1..Len(runs) :
          /\ runs[r].failedAt = "author"
          /\ Cardinality(CallsOf(r, {"author"})) = 2

\* C11: within one run at most one remote call awaits its reply; when an
\* Analyzing call is issued the fact-retrieval call has been answered, when
\* an Authoring call is issued every Analyzing call has been answered, and
\* the plan handed to Authoring is the text Analyzing returned in that run.
C11_OneCallInFlight ==
    \A r \in 1..Len(runs) :
        /\ Cardinality(runs[r].inflight) <= 1
        /\ runs[r].inflight \subseteq {Len(runs[r].log)}
        /\ runs[r].inflight # {} <=> runs[r].pc \in {"facts", "analyze", "author"}
        /\ CallsOf(r, {"analyze"}) # {} => runs[r].inflight \cap CallsOf(r, {"facts"}) = {}
        /\ \A i \in CallsOf(r, {"author"}) :
              /\ runs[r].inflight \cap CallsOf(r, {"facts", "analyze"}) = {}
              /\ \A j \in CallsOf(r, {"facts", "analyze"}) : j < i
              /\ runs[r].log[i].call.params.parts[2] =
                    TextPart(<<"Approved Architecture Plan:">> \o runs[r].planData)

\* C11 witness: the Authoring call is in flight on its fallback hop, alone,
\* carrying the plan G1 that the run's Analyzing returned after its own
\* fallback hop.
C11_Witness ==
    \E r \in 1..Len(runs) :
        /\ runs[r].pc = "author"
        /\ runs[r].tier = "secondary"
        /\ runs[r].planData = <<"G1">>
        /\ Len(runs[r].log) = 5
        /\ runs[r].inflight = {5}

(***************************************************************************)
(* generateVeoVideo (geminiService.ts 478-526)                             *)
(***************************************************************************)
VeoModel == "veo-3.1-fast-generate-preview"

\* Line 512: the delay of the poll loop, in milliseconds.
PollIntervalMs == 5000

\* The poll counters of the model stop counting here; the loop goes on.
MaxPolls == 3

\* Line 517
NoUriMsg ==
    << "V", "i", "d", "e", "o", " ", "g", "e", "n", "e", "r", "a", "t", "i",
       "o", "n", " ", "f", "a", "i", "l", "e", "d", " ", "o", "r", " ", "n",
       "o", " ", "U", "R", "I", " ", "r", "e", "t", "u", "r", "n", "e", "d" >>

\* Line 522
VeoUnavailableMsg ==
    << "V", "e", "o", " ", "m", "o", "d", "e", "l", " ", "n", "o", "t", " ",
       "a", "v", "a", "i", "l", "a", "b", "l", "e", " ", "w", "i", "t", "h",
       " ", "c", "u", "r", "r", "e", "n", "t", " ", "A", "P", "I", " ", "K",
       "e", "y", ".", " ", "T", "h", "i", "s", " ", "f", "e", "a", "t", "u",
       "r", "e", " ", "r", "e", "q", "u", "i", "r", "e", "s", " ", "a", " ",
       "s", "p", "e", "c", "i", "f", "i", "c", " ", "p", "a", "i", "d", " ",
       "t", "i", "e", "r", " ", "o", "r", " ", "r", "e", "g", "i", "o", "n",
       "." >>

ErrorOf(m) == [kind |-> "throw", uri |-> "", hasMsg |-> TRUE, msg |-> m]

\* The value a rejected remote call throws, as an outcome.
RaisedBy(reply) == [kind |-> "throw", uri |-> "", hasMsg |-> reply.hasMsg, msg |-> reply.msg]

\* A mutation whose catch block rethrows every error as it is.
VeoCatch_Rethrow(error) == error

\* Lines 520-525: the catch block around the whole body.
VeoCatch(error) ==
    IF IsNotFoundError(error) THEN ErrorOf(VeoUnavailableMsg) ELSE error

\* A mutation that returns whatever the operation carries.
VeoResult_Unchecked(operation) ==
    [kind |-> "return", uri |-> operation.uri.s, hasMsg |-> FALSE, msg |-> <<>>]

\* Lines 516-519: the locator of the finished operation, or the error that
\* the catch block then gets.
VeoResult(operation) ==
    IF operation.uri.t = "string" /\ operation.uri.s # ""
    THEN [kind |-> "return", uri |-> operation.uri.s, hasMsg |-> FALSE, msg |-> <<>>]
    ELSE VeoCatch(ErrorOf(NoUriMsg))

\* A mutation that leaves the loop after its first turn.
KeepPolling_Never(operation, polls) == FALSE

\* A mutation that gives up after two polls.
KeepPolling_Bounded(operation, polls) == ~operation.done /\ polls < 2

\* Line 511: while (!operation.done)
KeepPolling(operation, polls) == ~operation.done

Bump(n) == IF n < MaxPolls THEN n + 1 ELSE n

\* Lines 511-519 for the operation a call resolved with: sleep before the
\* next poll, or leave the loop.
Observe(v, operation) ==
    IF KeepPolling(operation, v.polls)
    THEN [v EXCEPT !.pc = "sleeping", !.op = operation, !.timer = PollIntervalMs,
                   !.sleeps = Bump(@)]
    ELSE LET out == VeoResult(operation)
         IN  [v EXCEPT !.pc = IF out.kind = "return" THEN "returned" ELSE "failed",
                       !.op = operation, !.out = out,
                       !.caught = IF out.kind = "return" THEN @ ELSE ErrorOf(NoUriMsg)]

\* A mutation whose translation covers the submission only.
Reject_SubmissionOnly(v, reply) ==
    [v EXCEPT !.pc = "failed", !.raised = TRUE, !.caught = RaisedBy(reply),
              !.out = IF v.sleeps = 0 THEN VeoCatch(RaisedBy(reply))
                      ELSE RaisedBy(reply)]

\* Lines 520-525 for a remote call that was rejected.
Reject(v, reply) ==
    [v EXCEPT !.pc = "failed", !.raised = TRUE, !.caught = RaisedBy(reply),
              !.out = VeoCatch(RaisedBy(reply))]

\* The operation the remote endpoint reports for its job.
OperationOf(v) == [done |-> v.job = "done", uri |-> v.jobUri]

VeoPrompts == { <<>>, <<"P1">> }
VeoRatios  == {"16:9", "9:16"}
VeoUris    == { JsUndefined, JsString(""), JsString("U1"), JsString("U2") }

\* Lines 478-509: the function up to its submission.  The image goes into
\* the request when both its bytes and its MIME type are given.
VeoInvoke(prompt, bytes, mime, ratio) ==
    /\ veo.pc = "idle"
    /\ veo' = [veo EXCEPT !.pc = "submitting", !.prompt = prompt,
                          !.image = (bytes /\ mime), !.aspectRatio = ratio,
                          !.calls = {<<"generateVideos", VeoModel>>},
                          !.submits = 1, !.job = "pending"]
    /\ UNCHANGED <<invVars, fx, sx, qz, uiVars>>

\* The remote job finishes, with or without a video locator.
VeoJobFinishes(uri) ==
    /\ veo.job = "pending"
    /\ veo.pc \in {"submitting", "sleeping", "fetching"}
    /\ veo' = [veo EXCEPT !.job = "done", !.jobUri = uri]
    /\ UNCHANGED <<invVars, fx, sx, qz, uiVars>>

\* Line 509 resolves with the operation.
VeoSubmitted ==
    /\ veo.pc = "submitting"
    /\ veo' = Observe(veo, OperationOf(veo))
    /\ UNCHANGED <<invVars, fx, sx, qz, uiVars>>

\* Line 509 is rejected.
VeoSubmitFails(reply) ==
    /\ veo.pc = "submitting"
    /\ veo' = Reject(veo, reply)
    /\ UNCHANGED <<invVars, fx, sx, qz, uiVars>>

\* Lines 512-513: the timer fires and the operation is fetched again.
VeoWake ==
    /\ veo.pc = "sleeping"
    /\ veo' = [veo EXCEPT !.pc = "fetching", !.timer = 0, !.polls = Bump(@),
                          !.calls = @ \cup {<<"getVideosOperation", VeoModel>>}]
    /\ UNCHANGED <<invVars, fx, sx, qz, uiVars>>

\* Line 513 resolves with the operation.
VeoPolled ==
    /\ veo.pc = "fetching"
    /\ veo' = Observe(veo, OperationOf(veo))
    /\ UNCHANGED <<invVars, fx, sx, qz, uiVars>>

\* Line 513 is rejected.
VeoPollFails(reply) ==
    /\ veo.pc = "fetching"
    /\ veo' = Reject(veo, reply)
    /\ UNCHANGED <<invVars, fx, sx, qz, uiVars>>

InitVeo ==
    /\ inv = InvIdle
    /\ icalls = <<>>
    /\ ireplies = <<>>
    /\ fx = FxIdle
    /\ sx = SxIdle
    /\ veo = VeoIdle
    /\ qz = QzIdle
    /\ UiInit

NextVeo ==
    \/ \E p \in VeoPrompts, b \in BOOLEAN, m \in BOOLEAN, a \in VeoRatios :
          VeoInvoke(p, b, m, a)
    \/ \E u \in VeoUris : VeoJobFinishes(u)
    \/ VeoSubmitted
    \/ \E reply \in Errors : VeoSubmitFails(reply)
    \/ VeoWake
    \/ VeoPolled
    \/ \E reply \in Errors : VeoPollFails(reply)

SpecVeo == InitVeo /\ [][NextVeo]_vars

\* The timer fires and the remote endpoint answers each call.
VeoFairness ==
    /\ WF_vars(VeoWake)
    /\ WF_vars(VeoSubmitted \/ \E reply \in Errors : VeoSubmitFails(reply))
    /\ WF_vars(VeoPolled \/ \E reply \in Errors : VeoPollFails(reply))

SpecVeoFair == InitVeo /\ [][NextVeo]_vars /\ VeoFairness

(***************************************************************************)
(* generateQuiz (geminiService.ts 309-351)                                 *)
(***************************************************************************)
\* Line 314: the number of questions the prompt asks for.
QuizSize == 5

\* types.ts, QuizQuestion.correctAnswer: "index (0-3)", four options.
OptionCount == 4

\* Line 319: context.slice(0, 10000)
QuizContextLimit == 10000

\* The longest quiz response text, in tokens.
MaxQuizLen == 2

\* A question with n options whose correctAnswer is c.
QuizItem(id, n, c) ==
    [id |-> id, question |-> "q", options |-> [i \in 1..n |-> "o"],
     correctAnswer |-> c, explanation |-> "e"]

\* n questions of four options, the answer of each within 0..3.
QuizItems(n) == [i \in 1..n |-> QuizItem(i, OptionCount, i % OptionCount)]

JsOther(t) == [t |-> t, s |-> "", items |-> <<>>]

\* Tokens that are each one complete JSON document.  The response schema
\* (lines 327-339) fixes the item's properties and their types; it sets no
\* number of items, no number of options and no range of correctAnswer.
QuizDocTokens == {"Q0", "Q3", "Q5", "Q6", "Q5HI", "Q5NEG", "Q5OPT2", "QOBJ", "QNULL"}

QuizDocValue(tok) ==
    CASE tok = "Q0"     -> JsArray(<<>>)
      [] tok = "Q3"     -> JsArray(QuizItems(3))
      [] tok = "Q5"     -> JsArray(QuizItems(QuizSize))
      [] tok = "Q6"     -> JsArray(QuizItems(QuizSize + 1))
      [] tok = "Q5HI"   -> JsArray([QuizItems(QuizSize) EXCEPT
                               ![2] = QuizItem(2, OptionCount, OptionCount)])
      [] tok = "Q5NEG"  -> JsArray([QuizItems(QuizSize) EXCEPT
                               ![2] = QuizItem(2, OptionCount, -1)])
      [] tok = "Q5OPT2" -> JsArray([QuizItems(QuizSize) EXCEPT ![2] = QuizItem(2, 2, 3)])
      [] tok = "QOBJ"   -> JsOther("object")
      [] OTHER          -> JsOther("null")

QuizTokens == {"F", "json", "ws", "junk"} \cup QuizDocTokens

\* JSON.parse of a quiz response text.
ParseQuiz(text) ==
    LET body == Strip(text) IN
    IF Len(body) = 1 /\ body[1] \in QuizDocTokens
    THEN [ok |-> TRUE, value |-> QuizDocValue(body[1])]
    ELSE [ok |-> FALSE, value |-> JsOther("null")]

\* A mutation whose catch block lets the error escape.
GenerateQuiz_Rethrow(reply) ==
    IF ~reply.ok
    THEN [kind |-> "throw", value |-> JsArray(<<>>)]
    ELSE LET p == ParseQuiz(TextOr(reply.text, <<"Q0">>)) IN
         IF p.ok THEN Returned(p.value) ELSE [kind |-> "throw", value |-> JsArray(<<>>)]

\* Lines 321-350: the outcome of generateQuiz for the reply to its call:
\* JSON.parse(response.text || "[]") as it is, or [] from the catch block.
GenerateQuiz(reply) ==
    IF ~reply.ok
    THEN Returned(JsArray(<<>>))
    ELSE LET p == ParseQuiz(TextOr(reply.text, <<"Q0">>)) IN
         IF p.ok THEN Returned(p.value) ELSE Returned(JsArray(<<>>))

\* Lines 311-340: the request, sent with ai.models.generateContent itself.
QuizCall(contextLen) ==
    [model |-> "gemini-2.5-flash",
     content |-> IF contextLen < QuizContextLimit THEN contextLen ELSE QuizContextLimit,
     responseMimeType |-> "application/json"]

\* Lengths of the notes handed to generateQuiz.
QuizContexts == {0, 50, 10000, 10001}

RECURSIVE QuizTextsOfLen(_)
QuizTextsOfLen(n) ==
    IF n = 0 THEN { <<>> }
    ELSE { Append(t, tok) : t \in QuizTextsOfLen(n - 1), tok \in QuizTokens }

QuizTexts == UNION { QuizTextsOfLen(n) : n \in 0..MaxQuizLen }

QuizReplies == { Response(t) : t \in QuizTexts } \cup Errors

QuizInvoke(contextLen) ==
    /\ qz.status = "idle"
    /\ qz' = [status |-> "waiting", calls |-> <<QuizCall(contextLen)>>]
    /\ UNCHANGED <<invVars, fx, sx, veo, uiVars>>

QuizReply(reply) ==
    /\ qz.status = "waiting"
    /\ qz' = [status |-> "done", calls |-> qz.calls, reply |-> reply,
              result |-> GenerateQuiz(reply)]
    /\ UNCHANGED <<invVars, fx, sx, veo, uiVars>>

InitQuiz ==
    /\ inv = InvIdle
    /\ icalls = <<>>
    /\ ireplies = <<>>
    /\ fx = FxIdle
    /\ sx = SxIdle
    /\ veo = VeoIdle
    /\ qz = QzIdle
    /\ UiInit

NextQuiz ==
    \/ \E n \in QuizContexts : QuizInvoke(n)
    \/ \E reply \in QuizReplies : QuizReply(reply)

SpecQuiz == InitQuiz /\ [][NextQuiz]_vars

(***************************************************************************)
(* The simulator document's extraction on its own, over every text.        *)
(***************************************************************************)
\* The longest simulator response text, in tokens.
MaxHtmlLen == 5

\* "F" is a ``` fence, "html" and "json" are language tags, "junk" is
\* prose and "H1" is a stretch of markup.
HtmlTokens == {"F", "html", "json", "junk", "H1"}

RECURSIVE HtmlTextsOfLen(_)
HtmlTextsOfLen(n) ==
    IF n = 0 THEN { <<>> }
    ELSE { Append(t, tok) : t \in HtmlTextsOfLen(n - 1), tok \in HtmlTokens }

HtmlTexts == UNION { HtmlTextsOfLen(n) : n \in 0..MaxHtmlLen }

\* generateStudySimulator's lines 299-301 and the component's
\* extractSimulatorCode are applied to the text.
ExtractSimulator ==
    /\ sx.status = "text"
    /\ sx' = [status |-> "done", text |-> sx.text,
              code |-> SimulatorCodeOf(sx.text),
              extracted |-> ExtractSimulatorCode(sx.text)]
    /\ UNCHANGED <<invVars, fx, veo, qz, uiVars>>

InitExtract ==
    /\ inv = InvIdle
    /\ icalls = <<>>
    /\ ireplies = <<>>
    /\ fx = FxIdle
    /\ sx \in { [status |-> "text", text |-> t] : t \in HtmlTexts }
    /\ veo = VeoIdle
    /\ qz = QzIdle
    /\ UiInit

NextExtract == ExtractSimulator

SpecExtract == InitExtract /\ [][NextExtract]_vars

\* The places of a text where ```html stands with a fence somewhere after.
HtmlOpens(t) ==
    { i \in 1..(Len(t) - 1) :
        /\ t[i] = "F"
        /\ t[i + 1] = "html"
        /\ \E j \in (i + 2)..Len(t) : t[j] = "F" }

VeoActive   == veo.pc \in {"submitting", "sleeping", "fetching"}
VeoFinished == veo.pc \in {"returned", "failed"}

\* C14: one call of generateVeoVideo submits exactly once; each re-fetch
\* is issued out of one sleep of the fixed interval; a call that resolves
\* with a pending operation is followed by the next sleep; after a done
\* operation has been observed nothing is fetched again and the observed
\* operation stays done; a locator is returned only with a done operation.
C14_PollProtocol ==
    /\ [](/\ veo.pc # "idle" =>
               /\ veo.submits = 1
               /\ { c \in veo.calls : c[1] = "generateVideos" } = {<<"generateVideos", VeoModel>>}
          /\ veo.sleeps < MaxPolls =>
               veo.sleeps = veo.polls + (IF veo.pc = "sleeping" THEN 1 ELSE 0)
          /\ veo.pc \in {"sleeping", "fetching"} => ~veo.op.done
          /\ (VeoFinished /\ ~veo.raised) => veo.op.done
          /\ veo.pc = "returned" => veo.op.done /\ ~veo.raised)
    /\ [][ /\ veo.pc # "idle" => veo'.submits = veo.submits
           /\ (veo'.pc = "fetching" /\ veo.pc # "fetching") =>
                 /\ veo.pc = "sleeping"
                 /\ veo.timer = PollIntervalMs
           /\ (veo'.pc = "sleeping" /\ veo.pc # "sleeping") =>
                 /\ veo.pc \in {"submitting", "fetching"}
                 /\ veo'.timer = PollIntervalMs
           /\ veo.op.done =>
                 /\ veo'.op = veo.op
                 /\ veo'.polls = veo.polls
                 /\ veo'.calls = veo.calls
                 /\ veo'.pc = veo.pc ]_vars

\* C14 witness: the locator is returned after two sleeps and two polls.
C14_Witness ==
    /\ veo.pc = "returned"
    /\ veo.submits = 1
    /\ veo.sleeps = 2
    /\ veo.polls = 2
    /\ veo.op.done

\* C15: a returned locator is the non-empty uri of the done operation
\* last observed; a done operation without a uri (absent or empty) makes
\* the call fail with the no-URI error and return nothing.
C15_LocatorOrFatal ==
    /\ veo.pc = "returned" =>
          /\ veo.out.kind = "return"
          /\ veo.out.uri # ""
          /\ veo.op.done
          /\ veo.op.uri = JsString(veo.out.uri)
    /\ (veo.op.done /\ (veo.op.uri.t # "string" \/ veo.op.uri.s = "")) =>
          /\ veo.pc = "failed"
          /\ veo.out.kind = "throw"
          /\ veo.out.hasMsg
          /\ veo.out.msg = NoUriMsg

\* C15 witness: after a poll the operation is done with an empty uri and
\* the call has failed.
C15_Witness ==
    /\ veo.pc = "failed"
    /\ veo.polls = 1
    /\ veo.op = [done |-> TRUE, uri |-> JsString("")]
    /\ veo.out.msg = NoUriMsg

\* C16: when the submission is rejected with a message containing "404"
\* or "not found" the call fails with the Veo-not-available error in
\* place of the raw one, having issued the submission only: no sleep, no
\* re-fetch, no call of another model.
C16_SubmissionUnavailable ==
    ( /\ veo.raised
      /\ veo.polls = 0
      /\ veo.caught.hasMsg
      /\ (Includes(veo.caught.msg, Str404) \/ Includes(veo.caught.msg, StrNotFound)) ) =>
        /\ veo.pc = "failed"
        /\ veo.out = ErrorOf(VeoUnavailableMsg)
        /\ veo.out # veo.caught
        /\ veo.sleeps = 0
        /\ veo.calls = {<<"generateVideos", VeoModel>>}

\* C16 witness: the submission was rejected with "is not found".
C16_Witness ==
    /\ veo.pc = "failed"
    /\ veo.raised
    /\ veo.polls = 0
    /\ veo.caught.msg = <<"i", "s", " ", "n", "o", "t", " ", "f", "o", "u", "n", "d">>
    /\ veo.out.msg = VeoUnavailableMsg

\* C26: whatever raised the error - the submission, a later re-fetch, or
\* the missing locator - the call fails with the Veo-not-available error
\* when the message of the raised error contains "404" or "not found", and
\* with the raised error itself in every other case.
C26_TranslationAnywhere ==
    veo.pc = "failed" =>
        /\ (veo.caught.hasMsg /\ (Includes(veo.caught.msg, Str404)
                                   \/ Includes(veo.caught.msg, StrNotFound)))
              => veo.out = ErrorOf(VeoUnavailableMsg)
        /\ ~(veo.caught.hasMsg /\ (Includes(veo.caught.msg, Str404)
                                    \/ Includes(veo.caught.msg, StrNotFound)))
              => veo.out = veo.caught
        /\ ~veo.raised => (veo.caught = ErrorOf(NoUriMsg) /\ veo.out = ErrorOf(NoUriMsg))

\* C26 witness: a re-fetch after a sleep was rejected with a message that
\* contains "404", and the call failed with the Veo-not-available error.
C26_Witness ==
    /\ veo.pc = "failed"
    /\ veo.raised
    /\ veo.sleeps >= 1
    /\ veo.caught.msg = <<"E", " ", "4", "0", "4", " ", "x">>
    /\ veo.out.msg = VeoUnavailableMsg

\* C17: the loop has no poll limit.  With the timer firing and each call
\* answered, a call whose remote job is done or one of whose calls was
\* rejected comes to return or fail; the call finishes only by observing a
\* done operation or by a rejected call; and while the job stays pending
\* and no call is rejected it polls again and again and never finishes.
C17_PollsUntilDone ==
    /\ (VeoActive /\ veo.job = "done") ~> VeoFinished
    /\ [](veo.raised => VeoFinished)
    /\ [](VeoFinished => (veo.op.done \/ veo.raised))
    /\ ([](veo.job # "done" /\ ~veo.raised) /\ <>VeoActive) =>
          ([]<>(veo.pc = "fetching") /\ []~VeoFinished)

\* C17 witness: the job is still pending after as many polls as the model
\* counts, and the next sleep has begun.
C17_Witness ==
    /\ veo.pc = "sleeping"
    /\ veo.job = "pending"
    /\ veo.polls = MaxPolls
    /\ ~veo.op.done

(***************************************************************************)
(* Properties of quiz synthesis, under SpecQuiz.                           *)
(***************************************************************************)
\* A text JSON.parse accepts: one document, white space around it.
ParsableQuiz(t) ==
    \E i \in 1..Len(t) :
        /\ t[i] \in QuizDocTokens
        /\ \A j \in 1..Len(t) : j # i => t[j] = "ws"

\* C18: generateQuiz issues one remote call and returns; when the call is
\* rejected or the response text is not JSON it returns the empty list.
C18_QuizBestEffort ==
    /\ qz.status # "idle" => Len(qz.calls) = 1
    /\ qz.status = "done" =>
          /\ qz.result.kind = "return"
          /\ (~qz.reply.ok \/ ~ParsableQuiz(qz.reply.text)) =>
                qz.result.value = JsArray(<<>>)

\* C18 witness: a response that wraps its JSON in a fence is not parsed
\* and the empty list is returned.
C18_Witness ==
    /\ qz.status = "done"
    /\ qz.reply.ok
    /\ qz.reply.text = <<"F", "Q5">>
    /\ qz.result = Returned(JsArray(<<>>))

\* C19: no returned question has a correctAnswer outside
\* 0..Len(options)-1.
C19_AnswerInRange ==
    (qz.status = "done" /\ qz.result.kind = "return") =>
        \A i \in 1..Len(qz.result.value.items) :
            LET q == qz.result.value.items[i]
            IN  q.correctAnswer \in 0..(Len(q.options) - 1)

\* C20: the returned value is the empty list or a list of exactly five
\* questions of four options each.
C20_EmptyOrFive ==
    (qz.status = "done" /\ qz.result.kind = "return") =>
        /\ qz.result.value.t = "array"
        /\ \/ qz.result.value.items = <<>>
           \/ /\ Len(qz.result.value.items) = QuizSize
              /\ \A i \in 1..QuizSize :
                    Len(qz.result.value.items[i].options) = OptionCount

(***************************************************************************)
(* Properties of the on-demand simulator generation, under SpecSim.        *)
(***************************************************************************)
\* C12: a generateStudySimulator call is issued only while step is DONE
\* with a plan and a result present, and it carries the stored plan
\* narrative and the stored notes; no step of a pipeline run issues it,
\* and its fallback re-issue carries the same inputs.
C12_SimulatorOnlyFromReady ==
    [][ /\ Len(sims') > Len(sims) =>
              /\ step = "DONE"
              /\ plan # <<>>
              /\ result # <<>>
              /\ runs' = runs
              /\ LET call == GenerateStudySimulatorRequest(plan.markdownPlan, result.markdown)
                 IN  Last(sims').log = << LogEntry("simulator",
                                                  PrimaryCall(call.model, call.params)) >>
        /\ \A r \in 1..Len(runs') : \A i \in 1..Len(runs'[r].log) :
              /\ runs'[r].log[i].fn \in {"facts", "analyze", "author"}
              /\ runs'[r].log[i].call.params.sys # "simulator"
        /\ \A k \in 1..Len(sims) :
              /\ Len(sims'[k].log) >= Len(sims[k].log)
              /\ \A i \in 1..Len(sims'[k].log) :
                    sims'[k].log[i].call.params = sims[k].log[1].call.params ]_vars

\* C12 witness: in the results view of a finished run the simulator call
\* is on its fallback hop, carrying the run's plan and notes.
C12_Witness ==
    /\ step = "DONE"
    /\ \E k \in 1..Len(sims) :
          /\ sims[k].pc = "waiting"
          /\ sims[k].tier = "secondary"
          /\ Last(sims[k].log).call.params =
                GenerateStudySimulatorRequest(<<"G1">>, <<"G1">>).params


(***************************************************************************)
(* queryDeepDive (geminiService.ts 354-393), the component's               *)
(* handleGenerateQuiz (364-376) and handleChatSubmit (382-411), and the    *)
(* component as a whole.                                                   *)
(***************************************************************************)
\* How many times handleGenerateQuiz and handleChatSubmit are invoked in a
\* behaviour.
MaxQuizzes == 1
MaxChats == 2

\* Line 371: msg.role === 'user' ? 'user' : 'model'
DeepDiveRole(role) == IF role = "user" THEN "user" ELSE "model"

\* Lines 369-375: the mapped history, then the new message as a user turn.
DeepDiveContents(history, userMessage) ==
    [i \in 1..Len(history) |->
        [role |-> DeepDiveRole(history[i].role), text |-> history[i].content]]
    \o << [role |-> "user", text |-> userMessage] >>

\* A mutation that sends the request to the primary model of the pipeline.
QueryDeepDiveCall_Primary(history, context, userMessage) ==
    [model |-> "gemini-3-pro-preview",
     contents |-> DeepDiveContents(history, userMessage),
     systemInstruction |-> <<"CONTEXT (The Lesson):">> \o context]

\* Lines 355-385: the request, sent with ai.models.generateContent itself.
\* The notes of the model are shorter than the 5000 characters that
\* context.slice(0, 5000) keeps.
QueryDeepDiveCall(history, context, userMessage) ==
    [model |-> "gemini-2.5-flash",
     contents |-> DeepDiveContents(history, userMessage),
     systemInstruction |-> <<"CONTEXT (The Lesson):">> \o context]

\* Lines 377-392: the outcome of queryDeepDive for the reply to its call;
\* the function has no catch block.
QueryDeepDive(reply) ==
    IF reply.ok
    THEN Returned(TextOr(reply.text, <<"I couldn't generate a response.">>))
    ELSE [kind |-> "throw", value |-> reply]

\* !inputToUse.trim()
Blank(input) == \A i \in 1..Len(input) : input[i] = "ws"

\* A mutation that hands queryDeepDive the history with the new turn in it.
ChatHistoryArg_Updated(history, userMsg) == Append(history, userMsg)

\* Line 399: the history argument of queryDeepDive is the chatHistory of
\* the render the handler belongs to, which the update of line 394 has not
\* reached.
ChatHistoryArg(history, userMsg) == history

\* What the user can type or pick as a question.
ChatInputs == { <<>>, <<"ws">>, <<"Q1">> }

\* Replies to the deep-dive call and to the quiz call.
ChatReplies    == { Response(<<"A1">>), Response(<<>>), Error404 }
AppQuizReplies == { Response(<<"Q5">>), Error404 }

\* Lines 364-368: the handler up to its remote call.  The Generate button
\* is rendered in the results of step DONE and disabled while quizLoading.
GenerateQuizCall ==
    /\ step = "DONE"
    /\ result # <<>>
    /\ ~quizLoading
    /\ quizLoading' = TRUE
    /\ quizzes' = Append(quizzes,
          [pc |-> "waiting", sid |-> currentSessionId, notes |-> result.markdown,
           calls |-> << QuizCall(Len(result.markdown)) >>, raised |-> NoReply])
    /\ UNCHANGED <<invVars, svcVars, step, loading, plan, result, sessions,
                   currentSessionId, runs, isGeneratingSim, sims, quizQuestions,
                   chatLoading, chatHistory, chats, cmpVars>>

\* The handler, invoked at most MaxQuizzes times in a behaviour.
GenerateQuizClick ==
    /\ Len(quizzes) < MaxQuizzes
    /\ GenerateQuizCall

\* Lines 368-375: generateQuiz returns; the questions are shown, and the
\* effect of lines 89-94 stores them in the session that is current then.
QuizDone(k, reply) ==
    /\ quizzes[k].pc = "waiting"
    /\ LET questions == GenerateQuiz(reply).value
       IN  /\ quizzes' = [quizzes EXCEPT ![k].pc = "done", ![k].raised = reply]
           /\ quizQuestions' = questions
           /\ sessions' = AutoSave(sessions, currentSessionId, step, questions,
                                   chatHistory)
    /\ quizLoading' = FALSE
    /\ UNCHANGED <<invVars, svcVars, step, loading, plan, result, currentSessionId,
                   runs, isGeneratingSim, sims, chatLoading, chatHistory, chats,
                   cmpVars>>

\* Lines 382-399: the handler up to its remote call.  The chat is rendered
\* in the results of step DONE.
ChatSubmitCall(input) ==
    /\ step = "DONE"
    /\ result # <<>>
    /\ ~(Blank(input) \/ chatLoading)
    /\ LET userMsg == [role |-> "user", content |-> input]
           history == ChatHistoryArg(chatHistory, userMsg)
       IN  /\ chatHistory' = Append(chatHistory, userMsg)
           /\ chats' = Append(chats,
                 [pc |-> "waiting", sid |-> currentSessionId, prior |-> chatHistory,
                  userMessage |-> input,
                  calls |-> << QueryDeepDiveCall(history, result.markdown, input) >>,
                  raised |-> NoReply])
           /\ sessions' = AutoSave(sessions, currentSessionId, step, quizQuestions,
                                   Append(chatHistory, userMsg))
    /\ chatLoading' = TRUE
    /\ UNCHANGED <<invVars, svcVars, step, loading, plan, result, currentSessionId,
                   runs, isGeneratingSim, sims, quizLoading, quizQuestions, quizzes,
                   cmpVars>>

\* The handler, invoked at most MaxChats times in a behaviour.
ChatSubmit(input) ==
    /\ Len(chats) < MaxChats
    /\ ChatSubmitCall(input)

\* Lines 399-410: queryDeepDive returns or throws; the answer is appended
\* to the chatHistory of that moment, and the effect of lines 89-94 stores
\* it in the session that is current then.
ChatDone(k, reply) ==
    /\ chats[k].pc = "waiting"
    /\ LET out == QueryDeepDive(reply)
           aiMsg == [role |-> "ai", content |-> out.value]
       IN  IF out.kind = "return"
           THEN /\ chats' = [chats EXCEPT ![k].pc = "done"]
                /\ chatHistory' = Append(chatHistory, aiMsg)
                /\ sessions' = AutoSave(sessions, currentSessionId, step,
                                        quizQuestions, Append(chatHistory, aiMsg))
           ELSE /\ chats' = [chats EXCEPT ![k].pc = "failed", ![k].raised = reply]
                /\ UNCHANGED <<chatHistory, sessions>>
    /\ chatLoading' = FALSE
    /\ UNCHANGED <<invVars, svcVars, step, loading, plan, result, currentSessionId,
                   runs, isGeneratingSim, sims, quizLoading, quizQuestions, quizzes,
                   cmpVars>>

\* Lines 53-62: the sessions the mount effect finds in localStorage.
\* two sessions of earlier visits, the older one with a chat.
StoredSessions ==
    << [id |-> 99, topic |-> <<"T9">>, plan |-> [markdownPlan |-> <<"P9">>],
        result |-> [markdown |-> <<"N9">>, simulatorCode |-> <<>>],
        quizQuestions |-> JsArray(<<>>), chatHistory |-> <<>>],
       [id |-> 98, topic |-> <<"T8">>, plan |-> [markdownPlan |-> <<"P8">>],
        result |-> [markdown |-> <<"N8">>, simulatorCode |-> <<>>],
        quizQuestions |-> JsArray(<<>>),
        chatHistory |-> << [role |-> "user", content |-> <<"Q0">>],
                           [role |-> "ai", content |-> <<"A0">>] >>] >>

\* Outcomes of the simulator call while the on-demand operations are
\* looked at.
AppSimReplies     == { Response(<<"F", "html", "H1", "F">>), QuotaError }

InitApp ==
    /\ inv = InvIdle
    /\ icalls = <<>>
    /\ ireplies = <<>>
    /\ fx = FxIdle
    /\ sx = SxIdle
    /\ veo = VeoIdle
    /\ qz = QzIdle
    /\ step = "INPUT"
    /\ loading = "IDLE"
    /\ plan = <<>>
    /\ result = <<>>
    /\ sessions = StoredSessions
    /\ currentSessionId = 0
    /\ runs = <<>>
    /\ isGeneratingSim = FALSE
    /\ sims = <<>>
    /\ quizLoading = FALSE
    /\ quizQuestions = JsArray(<<>>)
    /\ chatLoading = FALSE
    /\ chatHistory = <<>>
    /\ quizzes = <<>>
    /\ chats = <<>>
    /\ veoGen = VeoGenIdle
    /\ imageTools = ImageToolsIdle

\* The quiz and the chat of the sessions the user moves between.
NextChat ==
    \/ Back
    \/ \E i \in 1..Len(sessions) : LoadSession(i)
    \/ GenerateQuizClick
    \/ \E k \in 1..Len(quizzes), reply \in AppQuizReplies : QuizDone(k, reply)
    \/ \E input \in ChatInputs : ChatSubmit(input)
    \/ \E k \in 1..Len(chats), reply \in ChatReplies : ChatDone(k, reply)

SpecChat == InitApp /\ [][NextChat]_vars

\* The writes to the session list: the simulator, the quiz, and the
\* sessions the user moves between or deletes.
NextStore ==
    \/ Back
    \/ \E i \in 1..Len(sessions) : LoadSession(i)
    \/ \E i \in 1..Len(sessions) : DeleteSession(i)
    \/ GenerateSimulator
    \/ \E k \in 1..Len(sims), reply \in AppSimReplies : SimulatorDone(k, reply)
    \/ GenerateQuizClick
    \/ \E k \in 1..Len(quizzes), reply \in AppQuizReplies : QuizDone(k, reply)

SpecStore == InitApp /\ [][NextStore]_vars

(***************************************************************************)
(* Properties of the deep-dive chat and the quiz, under SpecChat.          *)
(***************************************************************************)
\* C21: the contents handleChatSubmit has queryDeepDive send are the turns
\* the chat had before the submission, in their order, a user turn tagged
\* user and an answer tagged model, followed by the new message as one
\* user turn: one entry more than the earlier history.
C21_ChatPayload ==
    \A k \in 1..Len(chats) :
        LET c == chats[k]
            contents == c.calls[1].contents
        IN  /\ Len(contents) = Len(c.prior) + 1
            /\ \A i \in 1..Len(c.prior) :
                  /\ contents[i].text = c.prior[i].content
                  /\ c.prior[i].role = "user" => contents[i].role = "user"
                  /\ c.prior[i].role = "ai" => contents[i].role = "model"
            /\ contents[Len(contents)] = [role |-> "user", text |-> c.userMessage]

\* A question was sent after an earlier exchange of both roles.
C21_Witness ==
    \E k \in 1..Len(chats) :
        /\ Len(chats[k].prior) >= 2
        /\ \E i, j \in 1..Len(chats[k].prior) :
              chats[k].prior[i].role = "user" /\ chats[k].prior[j].role = "ai"

\* C22: the contents sent with every deep-dive request alternate between
\* the user role and the model role, whatever submissions, failed ones
\* included, came before.
C22_PayloadAlternates ==
    \A k \in 1..Len(chats) :
        LET contents == chats[k].calls[1].contents
        IN  \A i \in 1..(Len(contents) - 1) : contents[i].role # contents[i + 1].role

\* C23 as stated: quiz synthesis and the deep-dive turn issue their call
\* through the Fallback Invoker, so a call answered with capability
\* unavailable is followed by the invoker's one re-issue.
C23_ReissuedByInvoker ==
    /\ \A k \in 1..Len(quizzes) :
          (quizzes[k].pc = "done" /\ IsNotFoundError(quizzes[k].raised))
              => Len(quizzes[k].calls) = 2
    /\ \A k \in 1..Len(chats) :
          (chats[k].pc = "failed" /\ IsNotFoundError(chats[k].raised))
              => Len(chats[k].calls) = 2

\* C23: quiz synthesis and the deep-dive turn each issue one call, sent
\* directly to the model the Fallback Invoker falls back to; no call is
\* re-issued, also when the answer is capability unavailable.
C23_OneDirectCall ==
    /\ \A k \in 1..Len(quizzes) :
          /\ Len(quizzes[k].calls) = 1
          /\ quizzes[k].calls[1].model = FallbackModel
    /\ \A k \in 1..Len(chats) :
          /\ Len(chats[k].calls) = 1
          /\ chats[k].calls[1].model = FallbackModel

\* A quiz call and a deep-dive call were both answered with capability
\* unavailable, and their handlers have finished.
C23_Witness ==
    /\ \E k \in 1..Len(quizzes) :
          quizzes[k].pc = "done" /\ IsNotFoundError(quizzes[k].raised)
    /\ \E k \in 1..Len(chats) :
          chats[k].pc = "failed" /\ IsNotFoundError(chats[k].raised)
    /\ ~quizLoading /\ ~chatLoading

\* No quiz call and no deep-dive call awaits its answer.
ChatQuiet ==
    /\ \A k \in 1..Len(quizzes) : quizzes[k].pc # "waiting"
    /\ \A k \in 1..Len(chats) : chats[k].pc # "waiting"

\* C28: once no call is in flight, what the view of step DONE shows
\* belongs to the current session: every answer in the chat beyond the
\* stored history the session started with, and a non-empty quiz, come
\* from a request made while that session was the current one.
C28_ResultsInOwnSession ==
    (ChatQuiet /\ step = "DONE") =>
        /\ \A i \in 1..Len(chatHistory) :
              (chatHistory[i].role = "ai" /\ chatHistory[i].content # <<"A0">>) =>
                  \E k \in 1..Len(chats) :
                      chats[k].pc = "done" /\ chats[k].sid = currentSessionId
        /\ quizQuestions.items # <<>> =>
              \E k \in 1..Len(quizzes) :
                  quizzes[k].pc = "done" /\ quizzes[k].sid = currentSessionId

(***************************************************************************)
(* Properties of the writes to the session list, under SpecStore.          *)
(***************************************************************************)
\* C25: a completed simulator synthesis changes nothing but the simulator
\* code, in the displayed result and in the stored record of the current
\* session: the displayed notes and plan and every other stored field
\* stay as they were; a failed synthesis leaves result and store as they
\* were.
C25_OnlySimulatorSource ==
    [][ \A k \in 1..Len(sims) :
          /\ (sims[k].pc = "waiting" /\ sims'[k].pc = "done") =>
                /\ plan' = plan
                /\ result'.markdown = result.markdown
                /\ Len(sessions') = Len(sessions)
                /\ \A i \in 1..Len(sessions) :
                      sessions'[i] =
                          IF sessions[i].id = currentSessionId
                          THEN [sessions[i] EXCEPT
                                   !.result.simulatorCode = result'.simulatorCode]
                          ELSE sessions[i]
          /\ (sims[k].pc = "waiting" /\ sims'[k].pc = "failed") =>
                /\ plan' = plan /\ result' = result /\ sessions' = sessions
      ]_vars

\* No simulator call and no quiz call awaits its answer.
StoreQuiet ==
    /\ \A k \in 1..Len(sims) : sims[k].pc # "waiting"
    /\ \A k \in 1..Len(quizzes) : quizzes[k].pc # "waiting"

SessionIds == { sessions[i].id : i \in 1..Len(sessions) }

\* With no call in flight, the stored record of the session shown at DONE
\* holds the displayed quiz, chat and simulator code.
StoreMatchesView ==
    (StoreQuiet /\ step = "DONE" /\ currentSessionId # 0) =>
        \E i \in 1..Len(sessions) :
            /\ sessions[i].id = currentSessionId
            /\ sessions[i].quizQuestions = quizQuestions
            /\ sessions[i].chatHistory = chatHistory
            /\ sessions[i].result.simulatorCode = result.simulatorCode

\* C29: no update of the session list is lost: with no call in flight the
\* stored record of the current session holds the displayed quiz, chat and
\* simulator code, and a session that is gone from the list never comes
\* back.
C29_NoLostUpdate ==
    /\ []StoreMatchesView
    /\ [][SessionIds' \subseteq SessionIds]_vars

(***************************************************************************)
(* handleStartStudy invoked more than once (part_001 187-260, 574).        *)
(***************************************************************************)
\* How many times handleStartStudy is invoked in a behaviour of SpecRuns.
MaxStarts == 2

\* Outcomes of a run's calls that tell the runs apart.
RunsReplies == { Response(<<"G1">>), Response(<<"G2">>), QuotaError }

\* Lines 187-215: the Start button of the INPUT view, whenever it is shown.
StartStudyAgain(inputText) ==
    /\ Len(runs) < MaxStarts
    /\ StartStudyRun(inputText, "none")

NextRuns ==
    \/ \E t \in Topics : StartStudyAgain(t)
    \/ \E r \in 1..Len(runs) : FactsDone(r, Response(<<"FULL">>))
    \/ \E r \in 1..Len(runs), reply \in RunsReplies : AnalyzeDone(r, reply)
    \/ \E r \in 1..Len(runs), reply \in RunsReplies : AuthorDone(r, reply)
    \/ Back

SpecRuns == Init /\ [][NextRuns]_vars

(***************************************************************************)
(* Properties of concurrent pipeline runs, under SpecRuns.                 *)
(***************************************************************************)
\* The runs whose handler has neither finished nor failed.
RunsInFlight == { r \in 1..Len(runs) : runs[r].pc \in {"facts", "analyze", "author"} }

\* C27: at most one pipeline run is in flight at any time, and the plan
\* and the result shown at DONE are those of one and the same run (the
\* pair one run saved as its session).
C27_OneRunAtATime ==
    /\ Cardinality(RunsInFlight) <= 1
    /\ (step = "DONE" /\ plan # <<>> /\ result # <<>>) =>
          \E i \in 1..Len(sessions) :
              /\ sessions[i].plan = plan
              /\ sessions[i].result.markdown = result.markdown

(***************************************************************************)
(* The handlers of the VeoGen component (VeoGen.tsx 15-50) and of the      *)
(* ImageTools component (ImageTools.tsx 16-40), and every busy flag.       *)
(***************************************************************************)
\* VeoGen.tsx 45-49: the catch block.
VeoGenFailed(e) == <<"Generation Failed. ">> \o (IF e.hasMsg THEN e.msg ELSE <<>>)

\* A mutation whose catch block leaves the busy state on.
VeoGenCatch_KeepLoading(vg, e) ==
    [vg EXCEPT !.pc = "idle", !.error = VeoGenFailed(e)]

\* VeoGen.tsx 45-49: the catch block.
VeoGenCatch(vg, e) ==
    [vg EXCEPT !.pc = "idle", !.error = VeoGenFailed(e), !.loading = "ERROR"]

\* What the awaited generateVeoVideo settles with.
VeoGenOutcomes ==
    { [kind |-> "return", uri |-> "U1", hasMsg |-> FALSE, msg |-> <<>>],
      ErrorOf(VeoUnavailableMsg), ErrorOf(NoUriMsg), RaisedBy(QuotaError) }

\* VeoGen.tsx 15-37: the handler up to its first await.  The button is
\* disabled while loading is LOADING and while there is neither a prompt
\* nor an image.
VeoGenGenerate(prompt, hasImage) ==
    /\ veoGen.loading # "LOADING"
    /\ ~(prompt = <<>> /\ ~hasImage)
    /\ veoGen' = [pc |-> IF hasImage THEN "reading" ELSE "generating",
                  loading |-> "LOADING", error |-> <<>>, videoUrl |-> FALSE]
    /\ UNCHANGED <<invVars, svcVars, step, loading, plan, result, sessions,
                   currentSessionId, runs, isGeneratingSim, sims, qcVars, imageTools>>

\* VeoGen.tsx 25-37: the FileReader has read the image, and
\* generateVeoVideo is called.
VeoGenRead ==
    /\ veoGen.pc = "reading"
    /\ veoGen' = [veoGen EXCEPT !.pc = "generating"]
    /\ UNCHANGED <<invVars, svcVars, step, loading, plan, result, sessions,
                   currentSessionId, runs, isGeneratingSim, sims, qcVars, imageTools>>

\* VeoGen.tsx 37-38: generateVeoVideo settles; the video is fetched.
VeoGenGenerated(out) ==
    /\ veoGen.pc = "generating"
    /\ veoGen' = IF out.kind = "return"
                 THEN [veoGen EXCEPT !.pc = "downloading"]
                 ELSE VeoGenCatch(veoGen, out)
    /\ UNCHANGED <<invVars, svcVars, step, loading, plan, result, sessions,
                   currentSessionId, runs, isGeneratingSim, sims, qcVars, imageTools>>

\* VeoGen.tsx 38-40: fetch settles: a response that is ok, a response that
\* is not, or a rejection.
VeoGenFetched(res) ==
    /\ veoGen.pc = "downloading"
    /\ veoGen' =
          CASE res = "ok" -> [veoGen EXCEPT !.pc = "reading blob"]
            [] res = "not ok" ->
                 VeoGenCatch(veoGen, ErrorOf(<<"Failed to download generated video">>))
            [] OTHER -> VeoGenCatch(veoGen, ErrorOf(<<"Failed to fetch">>))
    /\ UNCHANGED <<invVars, svcVars, step, loading, plan, result, sessions,
                   currentSessionId, runs, isGeneratingSim, sims, qcVars, imageTools>>

\* VeoGen.tsx 40-43: res.blob() settles.
VeoGenBlob(ok) ==
    /\ veoGen.pc = "reading blob"
    /\ veoGen' = IF ok
                 THEN [veoGen EXCEPT !.pc = "idle", !.videoUrl = TRUE,
                                     !.loading = "SUCCESS"]
                 ELSE VeoGenCatch(veoGen, ErrorOf(<<"Failed to fetch">>))
    /\ UNCHANGED <<invVars, svcVars, step, loading, plan, result, sessions,
                   currentSessionId, runs, isGeneratingSim, sims, qcVars, imageTools>>

\* ImageTools.tsx 16-32: the handler up to its first await.  The button is
\* disabled while loading is LOADING; editing without a source image
\* throws before anything is awaited.
ImageAction(mode, prompt, hasSource) ==
    /\ imageTools.loading # "LOADING"
    /\ prompt # <<>>
    /\ imageTools' =
          CASE mode = "GENERATE" ->
                 [pc |-> "generating", loading |-> "LOADING", resultImage |-> FALSE]
            [] mode = "EDIT" /\ hasSource ->
                 [pc |-> "reading", loading |-> "LOADING", resultImage |-> FALSE]
            [] OTHER ->
                 [pc |-> "idle", loading |-> "ERROR", resultImage |-> FALSE]
    /\ UNCHANGED <<invVars, svcVars, step, loading, plan, result, sessions,
                   currentSessionId, runs, isGeneratingSim, sims, qcVars, veoGen>>

\* ImageTools.tsx 27-32: the FileReader has read the source image, and
\* editImage is called.
ImageRead ==
    /\ imageTools.pc = "reading"
    /\ imageTools' = [imageTools EXCEPT !.pc = "editing"]
    /\ UNCHANGED <<invVars, svcVars, step, loading, plan, result, sessions,
                   currentSessionId, runs, isGeneratingSim, sims, qcVars, veoGen>>

\* ImageTools.tsx 23-39: generateImage or editImage settles.
ImageSettled(ok) ==
    /\ imageTools.pc \in {"generating", "editing"}
    /\ imageTools' = IF ok
                     THEN [pc |-> "idle", loading |-> "SUCCESS", resultImage |-> TRUE]
                     ELSE [imageTools EXCEPT !.pc = "idle", !.loading = "ERROR"]
    /\ UNCHANGED <<invVars, svcVars, step, loading, plan, result, sessions,
                   currentSessionId, runs, isGeneratingSim, sims, qcVars, veoGen>>

\* How many times each handler of StudyArchitect is invoked in a behaviour
\* of SpecLive.
MaxBusy == 1

\* Outcomes of the remote calls while the busy flags are looked at.
LiveReplies == { Response(<<"G1">>), QuotaError }
LiveQuizReplies == { Response(<<"Q5">>), QuotaError }

\* The answers to the remote calls of each handler.
PipelineAnswer ==
    \/ \E r \in 1..Len(runs) : FactsDone(r, Response(<<"FULL">>))
    \/ \E r \in 1..Len(runs), reply \in LiveReplies : AnalyzeDone(r, reply)
    \/ \E r \in 1..Len(runs), reply \in LiveReplies : AuthorDone(r, reply)
SimulatorAnswer == \E k \in 1..Len(sims), reply \in AppSimReplies : SimulatorDone(k, reply)
QuizAnswer == \E k \in 1..Len(quizzes), reply \in LiveQuizReplies : QuizDone(k, reply)
ChatAnswer == \E k \in 1..Len(chats), reply \in LiveReplies : ChatDone(k, reply)
VeoGenAnswer ==
    \/ \E out \in VeoGenOutcomes : VeoGenGenerated(out)
    \/ \E res \in {"ok", "not ok", "rejected"} : VeoGenFetched(res)
    \/ \E ok \in BOOLEAN : VeoGenBlob(ok)
ImageAnswer == \E ok \in BOOLEAN : ImageSettled(ok)

\* The handlers of StudyArchitect that set a busy flag.
LiveStartStudy == Len(runs) < MaxBusy /\ \E t \in Topics : StartStudyRun(t, "none")
LiveGenerateSimulator == Len(sims) < MaxBusy /\ GenerateSimulatorCall
LiveGenerateQuiz == Len(quizzes) < MaxBusy /\ GenerateQuizCall
LiveChatSubmit == Len(chats) < MaxBusy /\ ChatSubmitCall(<<"Q1">>)

NextLive ==
    \/ LiveStartStudy
    \/ Back
    \/ LiveGenerateSimulator
    \/ LiveGenerateQuiz
    \/ LiveChatSubmit
    \/ \E hasImage \in BOOLEAN : VeoGenGenerate(<<"P1">>, hasImage)
    \/ VeoGenRead
    \/ \E mode \in {"GENERATE", "EDIT"}, hasSource \in BOOLEAN :
          ImageAction(mode, <<"P1">>, hasSource)
    \/ ImageRead
    \/ PipelineAnswer
    \/ SimulatorAnswer
    \/ QuizAnswer
    \/ ChatAnswer
    \/ VeoGenAnswer
    \/ ImageAnswer

\* Every remote call that was issued is answered.
LiveFairness ==
    /\ WF_vars(PipelineAnswer)
    /\ WF_vars(SimulatorAnswer)
    /\ WF_vars(QuizAnswer)
    /\ WF_vars(ChatAnswer)
    /\ WF_vars(VeoGenAnswer)
    /\ WF_vars(ImageAnswer)

SpecLive == Init /\ [][NextLive]_vars /\ LiveFairness

(***************************************************************************)
(* Properties of the busy flags, under SpecLive.                           *)
(***************************************************************************)
\* C30: every busy flag is cleared once the remote calls of its handler
\* are answered, whatever the answers: loading of the pipeline, of VeoGen
\* and of ImageTools leaves LOADING, and isGeneratingSim, quizLoading and
\* chatLoading become false.
C30_BusyFlagsCleared ==
    /\ (loading = "LOADING") ~> (loading # "LOADING")
    /\ isGeneratingSim ~> ~isGeneratingSim
    /\ quizLoading ~> ~quizLoading
    /\ chatLoading ~> ~chatLoading
    /\ (veoGen.loading = "LOADING" /\ veoGen.pc # "reading")
          ~> (veoGen.loading # "LOADING")
    /\ (imageTools.loading = "LOADING" /\ imageTools.pc # "reading")
          ~> (imageTools.loading # "LOADING")

\* C30 witness: the flags are clear again after a rejected deep-dive call,
\* a rejected simulator call and a failed video download.
C30_Witness ==
    /\ \E k \in 1..Len(chats) : chats[k].pc = "failed"
    /\ \E k \in 1..Len(sims) : sims[k].pc = "failed"
    /\ ~chatLoading /\ ~isGeneratingSim
    /\ veoGen.loading = "ERROR"
    /\ veoGen.error = <<"Generation Failed. ", "Failed to download generated video">>
    /\ loading = "SUCCESS"

====
